---- MODULE Spec2Model ----
(***************************************************************************)
(* Model of the probing core of ttl: the probe engine (trace/engine.rs),   *)
(* the session state (state/session.rs), the pending-probe table           *)
(* (trace/pending.rs), the pause key of the TUI (tui/app.rs) and the       *)
(* control flow of the enrichment workers (lookup/rdns.rs, lookup/ix.rs).  *)
(*                                                                         *)
(* The receive loop, the session-state updater and the pending-table       *)
(* reaper are not part of the sources at hand.  They are modelled from the *)
(* design document: the receive side turns each ProbeSent notification of  *)
(* the engine ("Notify receiver about sent probe for correlation",         *)
(* engine.rs:120) into a pending entry, removes the entry on a correlated  *)
(* response and drops a response that finds none.                          *)
(***************************************************************************)
EXTENDS Integers, Sequences, FiniteSets, TLC

\* ------------------------------------------------------------------ bounds
\* config.max_ttl of the modelled sessions
MaxTtl == 2
\* largest config.count of the modelled sessions
MaxCount == 1
\* number of TTL sweeps the engine may start
MaxTicks == 2
\* number of set_ttl / send_icmp failures the kernel may report
MaxFails == 1
\* capacity of the engine -> receiver channel
ChanCap == 1
\* calls of one kind made on one hop when its methods are driven directly
MaxCalls == 3
\* longest datagram handed to the correlator
MaxPacketLen == 64
\* IxLookup::lookup calls that run side by side
MaxLookups == 2
\* seconds the clock may advance during the lookups
MaxElapsed == 3600
\* RTT samples recorded on one responder
MaxSamples == 4
\* open sessions in the SessionMap of the IX worker
MaxSessions == 2
\* resolver queries issued by one DnsLookup
MaxQueries == 3
\* stretches of time that pass while one DnsLookup is in use
MaxWaits == 3
\* entries pushed into the recent window of one responder
MaxArrivals == 62
\* timeouts among the entries pushed into one recent window
MaxTimeouts == 2
\* calls made on the hops of a session that keeps its recent windows
MaxEvents == 5
\* responding hops of the long path the enrichment workers serve
MaxPath == 11

\* ------------------------------------------------------- program constants
\* seq is a u8 that advances with wrapping_add
SeqModulus == 256

\* --------------------------------------------------------------- universes
Target == "target"
Router == "router"
IPs == {Target, Router}
NoIp == "none"
ResponseTypes == {"EchoReply", "TimeExceeded", "DestUnreachable"}
Ttls == 1..MaxTtl
\* Option<u64>: None is <<>>, Some(n) is <<n>>
CountOpts == {<<>>} \cup {<<n>> : n \in 1..MaxCount}
\* sequence numbers a response can carry
Seqs == 0..(MaxTicks - 1)

VARIABLES
    count,              \* config.count
    epc,                \* position of ProbeEngine::run
    ttl,                \* loop variable of the TTL sweep
    seq,                \* engine-local seq: u8
    total_sent,         \* engine-local total_sent: u64
    fails,              \* failures reported by the kernel so far
    wire,               \* packets handed to the kernel, per TTL
    hops,               \* session.hops
    complete,           \* session.complete
    session_total_sent, \* session.total_sent
    paused,             \* session.paused
    pending,            \* the pending table: set of ProbeId keys
    probe_tx,           \* the engine -> receiver channel
    rx_open,            \* the receiving half of the channel is alive
    reaper_on,          \* the reaper task is alive
    cancel,             \* the shared CancellationToken
    ui_paused,          \* UiState.paused
    ui_pc,              \* position of run_app
    dns_pc,             \* position of run_dns_worker
    dns_batch,          \* addresses of this tick still to look up
    dns_cache,          \* DnsLookup.cache: address -> cached hostname
    ix_pc,              \* position of run_ix_worker
    ix_batch,           \* addresses of this tick's batch
    ix_loaded,          \* IxLookup.loaded
    clock,              \* the time, in seconds since the epoch
    ix_disk,            \* the IX cache file on disk
    ix_prefixes,        \* IxLookup.prefixes
    ip_cache,           \* IxLookup.ip_cache with ip_cache_times
    lk,                 \* the IxLookup::lookup calls in progress
    call,               \* the function call under examination, with its result
    last                \* the operation that acted last

vars == <<count, epc, ttl, seq, total_sent, fails, wire, hops, complete,
          session_total_sent, paused, pending, probe_tx, rx_open, reaper_on,
          cancel, ui_paused, ui_pc, dns_pc, dns_batch, dns_cache, ix_pc,
          ix_batch, ix_loaded, clock, ix_disk, ix_prefixes, ip_cache, lk,
          call, last>>

engineVars == <<epc, ttl, seq, total_sent, fails, wire>>
sessionVars == <<hops, complete, session_total_sent, paused>>
uiVars == <<ui_paused, ui_pc>>
dnsVars == <<dns_pc, dns_batch, dns_cache>>
ixVars == <<ix_pc, ix_batch, ix_loaded>>
workerVars == <<dnsVars, ixVars>>
ixStore == <<clock, ix_disk, ix_prefixes, ip_cache, lk>>

\* ------------------------------------------------------------ session.rs
\* ProbeId::new
ProbeId(t, s) == <<t, s>>

\* Option::None of the enrichment fields
None == "none"

\* no function is under examination
NoCall == [fn |-> "none"]

\* ResponderStats::new
NewResponderStats == [sent |-> 0, received |-> 0, hostname |-> None, ix |-> None]

\* Hop::new(ttl)
NewHop(t) == [ttl |-> t, sent |-> 0, received |-> 0,
              responders |-> [ip \in {} |-> NewResponderStats],
              primary |-> NoIp]

\* a Session::new whose loop runs over 0..max_ttl
NewHopsFromZero == [t \in Ttls |-> NewHop(t - 1)]

\* Session::new: one hop per TTL in 1..=max_ttl, pushed in that order
NewHops == [t \in Ttls |-> NewHop(t)]

\* Hop::record_sent
RecordSent(hop) == [hop EXCEPT !.sent = @ + 1]

\* a responders map in which the entry of ip is written afresh on every
\* response instead of being kept
RespondersAfterInsert(hop, ip) ==
    [a \in DOMAIN hop.responders \cup {ip} |->
        IF a = ip
        THEN [NewResponderStats EXCEPT !.sent = hop.sent, !.received = 1]
        ELSE hop.responders[a]]

\* the responders map after Hop::record_response(ip): the entry of ip is
\* created on first sight, its sent mirrors hop.sent, its received grows by one
RespondersAfter(hop, ip) ==
    [a \in DOMAIN hop.responders \cup {ip} |->
        IF a = ip
        THEN LET stats == IF ip \in DOMAIN hop.responders
                          THEN hop.responders[ip] ELSE NewResponderStats
             IN [stats EXCEPT !.sent = hop.sent, !.received = @ + 1]
        ELSE hop.responders[a]]

\* an update_primary that settles on any responder of the hop
PrimaryAny(responders) == DOMAIN responders

\* Hop::update_primary: max_by_key over the HashMap returns one of the
\* responders whose received is greatest; which one depends on the iteration
\* order of the map
PrimaryChoices(responders) ==
    {ip \in DOMAIN responders :
        \A other \in DOMAIN responders :
            responders[other].received <= responders[ip].received}

\* Hop::record_response, with p the responder update_primary settles on
RecordResponse(hop, ip, p) ==
    [ttl |-> hop.ttl, sent |-> hop.sent, received |-> hop.received + 1,
     responders |-> RespondersAfter(hop, ip), primary |-> p]

\* f[1] + ... + f[n]
RECURSIVE SumTo(_, _)
SumTo(f, n) == IF n = 0 THEN 0 ELSE f[n] + SumTo(f, n - 1)

\* ------------------------------------------------- IxLookup (lookup/ix.rs)
\* IxCache::VERSION and IxCache::MAX_AGE_SECS
VERSION == 1
MAX_AGE_SECS == 24 * 60 * 60

\* IxLookup.ip_cache_ttl, in seconds
IpCacheTtl == 60 * 60

\* the time at which the process starts
Clock0 == 2 * MAX_AGE_SECS

\* no cache file
NoFile == [version |-> 0, fetched_at |-> 0, prefixes |-> <<>>, exists |-> FALSE]

\* the lookup calls that join_all runs side by side
LookupTasks == 1..MaxLookups

\* a lookup call that has not been made
NoLookup == [pc |-> "idle", ip |-> <<>>, result |-> None, via |-> "none"]

\* IxLookup::new: no prefixes, not loaded, empty per-IP cache
IxLookupNew ==
    /\ ix_prefixes = <<>>
    /\ ip_cache = [ip \in {} |-> [result |-> None, time |-> 0]]
    /\ lk = [k \in LookupTasks |-> NoLookup]
    /\ clock = Clock0

\* ------------------------------------------------------------------- Init
\* the state after construction, whatever an earlier run left on disk
InitProcess ==
    /\ count \in CountOpts
    /\ epc = "select"
    /\ ttl = 1
    /\ seq = 0
    /\ total_sent = 0
    /\ fails = 0
    /\ wire = [t \in Ttls |-> 0]
    /\ hops = NewHops
    /\ complete = FALSE
    /\ session_total_sent = 0
    /\ paused = FALSE
    /\ pending = {}
    /\ probe_tx = <<>>
    /\ rx_open = TRUE
    /\ reaper_on = TRUE
    /\ cancel = FALSE
    /\ ui_paused = FALSE
    /\ ui_pc = "run"
    /\ dns_pc = "select"
    /\ dns_batch = <<>>
    /\ dns_cache = [ip \in {} |-> None]
    /\ ix_pc = "select"
    /\ ix_batch = <<>>
    /\ ix_loaded = FALSE
    /\ IxLookupNew
    /\ call = NoCall
    /\ last = "init"

\* a first run: there is no cache file
Init == InitProcess /\ ix_disk = NoFile

\* ------------------------------------------------------- ProbeEngine::run
\* the cancelled() branch without its break
EngineCancelledNoBreak ==
    /\ epc = "select"
    /\ cancel
    /\ last' = "engine_cancelled"
    /\ UNCHANGED <<call, ixStore, workerVars, count, engineVars, sessionVars, pending,
                   probe_tx, rx_open, reaper_on, cancel, uiVars>>

\* select!: the cancelled() branch
EngineCancelled ==
    /\ epc = "select"
    /\ cancel
    /\ epc' = "done"
    /\ last' = "engine_cancelled"
    /\ UNCHANGED <<call, ixStore, workerVars, count, ttl, seq, total_sent, fails, wire, sessionVars,
                   pending, probe_tx, rx_open, reaper_on, cancel, uiVars>>

\* select!: the tick branch while session.paused: continue
EngineTickPaused ==
    /\ epc = "select"
    /\ paused
    /\ last' = "tick_paused"
    /\ UNCHANGED <<call, ixStore, workerVars, count, engineVars, sessionVars, pending, probe_tx,
                   rx_open, reaper_on, cancel, uiVars>>

\* a count limit that is compared with count alone
CountReachedPerSweep == count # <<>> /\ total_sent >= count[1]

\* the probe count limit of the tick branch
CountReached == count # <<>> /\ total_sent >= count[1] * MaxTtl

\* select!: the tick branch, not paused, count limit reached: cancel and break
EngineTickCountReached ==
    /\ epc = "select"
    /\ ~paused
    /\ CountReached
    /\ cancel' = TRUE
    /\ epc' = "done"
    /\ last' = "tick_count_reached"
    /\ UNCHANGED <<call, ixStore, workerVars, count, ttl, seq, total_sent, fails, wire, sessionVars,
                   pending, probe_tx, rx_open, reaper_on, uiVars>>

\* the tick branch without the pause gate
EngineTickSweepUngated ==
    /\ epc = "select"
    /\ ~CountReached
    /\ seq < MaxTicks
    /\ epc' = "sweep"
    /\ ttl' = 1
    /\ last' = "tick_sweep"
    /\ UNCHANGED <<call, ixStore, workerVars, count, seq, total_sent, fails, wire, sessionVars,
                   pending, probe_tx, rx_open, reaper_on, cancel, uiVars>>

\* select!: the tick branch, not paused, below the limit: start the TTL sweep
EngineTickSweep ==
    /\ epc = "select"
    /\ ~paused
    /\ ~CountReached
    /\ seq < MaxTicks
    /\ epc' = "sweep"
    /\ ttl' = 1
    /\ last' = "tick_sweep"
    /\ UNCHANGED <<call, ixStore, workerVars, count, seq, total_sent, fails, wire, sessionVars,
                   pending, probe_tx, rx_open, reaper_on, cancel, uiVars>>

\* an end of iteration whose seq stops at 255: saturating_add
NextTtlSaturating ==
    IF ttl < MaxTtl
    THEN /\ ttl' = ttl + 1
         /\ epc' = "sweep"
         /\ seq' = seq
    ELSE /\ ttl' = 1
         /\ epc' = "select"
         /\ seq' = IF seq + 1 < SeqModulus THEN seq + 1 ELSE seq

\* end of one iteration of `for ttl in 1..=max_ttl`; after the last one
\* seq = seq.wrapping_add(1) and the loop returns to select!
NextTtl ==
    IF ttl < MaxTtl
    THEN /\ ttl' = ttl + 1
         /\ epc' = "sweep"
         /\ seq' = seq
    ELSE /\ ttl' = 1
         /\ epc' = "select"
         /\ seq' = (seq + 1) % SeqModulus

\* a should_probe that goes by the comment in the code: "or if TTL is at or
\* below last responding hop"
ShouldProbeBelowLastResponding(t) ==
    ~complete \/ \E u \in Ttls : u >= t /\ hops[u].received > 0

\* should_probe, read under the session read lock
ShouldProbe(t) == ~complete \/ hops[t].received > 0

\* the TTL is skipped: should_probe is false
EngineSkipTtl ==
    /\ epc = "sweep"
    /\ ~ShouldProbe(ttl)
    /\ NextTtl
    /\ last' = "skip_ttl"
    /\ UNCHANGED <<call, ixStore, workerVars, count, total_sent, fails, wire, sessionVars, pending,
                   probe_tx, rx_open, reaper_on, cancel, uiVars>>

\* should_probe holds and set_ttl fails: log and continue with the next TTL
EngineSetTtlFails ==
    /\ epc = "sweep"
    /\ ShouldProbe(ttl)
    /\ fails < MaxFails
    /\ fails' = fails + 1
    /\ NextTtl
    /\ last' = "set_ttl_failed"
    /\ UNCHANGED <<call, ixStore, workerVars, count, total_sent, wire, sessionVars, pending,
                   probe_tx, rx_open, reaper_on, cancel, uiVars>>

\* a send failure that ends the sweep: break instead of continue
EngineSendFailsBreaks ==
    /\ epc = "sweep"
    /\ ShouldProbe(ttl)
    /\ fails < MaxFails
    /\ fails' = fails + 1
    /\ ttl' = 1
    /\ epc' = "select"
    /\ seq' = (seq + 1) % SeqModulus
    /\ last' = "send_failed"
    /\ UNCHANGED <<call, ixStore, workerVars, count, total_sent, wire, sessionVars, pending,
                   probe_tx, rx_open, reaper_on, cancel, uiVars>>

\* should_probe holds, set_ttl succeeds and send_icmp fails: log and
\* continue with the next TTL
EngineSendFails ==
    /\ epc = "sweep"
    /\ ShouldProbe(ttl)
    /\ fails < MaxFails
    /\ fails' = fails + 1
    /\ NextTtl
    /\ last' = "send_failed"
    /\ UNCHANGED <<call, ixStore, workerVars, count, total_sent, wire, sessionVars, pending,
                   probe_tx, rx_open, reaper_on, cancel, uiVars>>

\* the send step of an engine that notifies the receiver as it sends,
\* before hop.sent is recorded
EngineSendNotifiesFirst ==
    /\ epc = "sweep"
    /\ ShouldProbe(ttl)
    /\ Len(probe_tx) < ChanCap
    /\ probe_tx' = Append(probe_tx, ProbeId(ttl, seq))
    /\ wire' = [wire EXCEPT ![ttl] = @ + 1]
    /\ epc' = "record"
    /\ last' = "send"
    /\ UNCHANGED <<call, ixStore, workerVars, count, ttl, seq, total_sent, fails, sessionVars,
                   pending, rx_open, reaper_on, cancel, uiVars>>

\* should_probe holds, set_ttl and send_icmp succeed: the packet is handed
\* to the kernel
EngineSend ==
    /\ epc = "sweep"
    /\ ShouldProbe(ttl)
    /\ wire' = [wire EXCEPT ![ttl] = @ + 1]
    /\ epc' = "record"
    /\ last' = "send"
    /\ UNCHANGED <<call, ixStore, workerVars, count, ttl, seq, total_sent, fails, sessionVars,
                   pending, probe_tx, rx_open, reaper_on, cancel, uiVars>>

\* a record step whose hop_mut finds no hop for the deepest TTL: the probe
\* is counted in the session total only
EngineRecordSentNoHop ==
    /\ epc = "record"
    /\ hops' = IF ttl < MaxTtl THEN [hops EXCEPT ![ttl] = RecordSent(@)]
               ELSE hops
    /\ session_total_sent' = session_total_sent + 1
    /\ epc' = "notify"
    /\ last' = "record_sent"
    /\ UNCHANGED <<call, ixStore, workerVars, count, ttl, seq, total_sent, fails, wire, complete, paused,
                   pending, probe_tx, rx_open, reaper_on, cancel, uiVars>>

\* under the session write lock: hop.record_sent(), state.total_sent += 1
EngineRecordSent ==
    /\ epc = "record"
    /\ hops' = [hops EXCEPT ![ttl] = RecordSent(@)]
    /\ session_total_sent' = session_total_sent + 1
    /\ epc' = "notify"
    /\ last' = "record_sent"
    /\ UNCHANGED <<call, ixStore, workerVars, count, ttl, seq, total_sent, fails, wire, complete, paused,
                   pending, probe_tx, rx_open, reaper_on, cancel, uiVars>>

\* probe_tx.send(ProbeSent{..}).await returns: with Ok once the bounded
\* channel has room, with Err (ignored) when the receiving half is gone;
\* then total_sent += 1 and the sweep goes on
EngineNotify ==
    /\ epc = "notify"
    /\ \/ /\ rx_open
          /\ Len(probe_tx) < ChanCap
          /\ probe_tx' = Append(probe_tx, ProbeId(ttl, seq))
       \/ /\ ~rx_open
          /\ probe_tx' = probe_tx
    /\ total_sent' = total_sent + 1
    /\ NextTtl
    /\ last' = "notify"
    /\ UNCHANGED <<call, ixStore, workerVars, count, fails, wire, sessionVars, pending, rx_open,
                   reaper_on, cancel, uiVars>>

\* ------------------------------------------- receive side (design document)
\* the receive loop takes a ProbeSent notification off the channel and files
\* the probe in the pending table; an entry under the same key is overwritten
RecvNotify ==
    /\ rx_open
    /\ probe_tx # <<>>
    /\ pending' = pending \cup {Head(probe_tx)}
    /\ probe_tx' = Tail(probe_tx)
    /\ last' = "recv_notify"
    /\ UNCHANGED <<call, ixStore, workerVars, count, engineVars, sessionVars, rx_open, reaper_on,
                   cancel, uiVars>>

\* an updater that counts a response without asking the pending table
UpdateSessionUnchecked(id, ip, ty) ==
    /\ pending' = pending \ {id}
    /\ \E p \in PrimaryChoices(RespondersAfter(hops[id[1]], ip)) :
          hops' = [hops EXCEPT ![id[1]] = RecordResponse(@, ip, p)]
    /\ complete' = (complete \/ (ip = Target /\ ty = "EchoReply"))

\* an updater that takes any matched response from the target for arrival
UpdateSessionAnyType(id, ip, ty) ==
    IF id \in pending
    THEN /\ pending' = pending \ {id}
         /\ \E p \in PrimaryChoices(RespondersAfter(hops[id[1]], ip)) :
               hops' = [hops EXCEPT ![id[1]] = RecordResponse(@, ip, p)]
         /\ complete' = (complete \/ ip = Target)
    ELSE UNCHANGED <<pending, hops, complete>>

\* an updater that writes the verdict of the latest matched response into
\* complete
UpdateSessionLatestVerdict(id, ip, ty) ==
    IF id \in pending
    THEN /\ pending' = pending \ {id}
         /\ \E p \in PrimaryChoices(RespondersAfter(hops[id[1]], ip)) :
               hops' = [hops EXCEPT ![id[1]] = RecordResponse(@, ip, p)]
         /\ complete' = (ip = Target /\ ty = "EchoReply")
    ELSE UNCHANGED <<pending, hops, complete>>

\* the session-state updater on a parsed response: the pending entry is
\* removed and the hop updated; without an entry the response is dropped
UpdateSession(id, ip, ty) ==
    IF id \in pending
    THEN /\ pending' = pending \ {id}
         /\ \E p \in PrimaryChoices(RespondersAfter(hops[id[1]], ip)) :
               hops' = [hops EXCEPT ![id[1]] = RecordResponse(@, ip, p)]
         /\ complete' = (complete \/ (ip = Target /\ ty = "EchoReply"))
    ELSE UNCHANGED <<pending, hops, complete>>

\* the name under which a matched response of type ty from ip is recorded
\* in last
ResponseOp(ip, ty) == "response " \o ty \o " " \o ip

\* the receive loop reads a datagram that the correlator parses to
\* (responder ip, ProbeId id, response type ty)
RecvResponse ==
    /\ rx_open
    /\ \E t \in Ttls, s \in Seqs, ip \in IPs, ty \in ResponseTypes :
          /\ UpdateSession(ProbeId(t, s), ip, ty)
          /\ last' = IF ProbeId(t, s) \in pending
                     THEN ResponseOp(ip, ty) ELSE "response_dropped"
    /\ UNCHANGED <<call, ixStore, workerVars, count, engineVars, session_total_sent, paused, probe_tx,
                   rx_open, reaper_on, cancel, uiVars>>

\* the receive loop ends on cancellation and drops its half of the channel
ReceiverExit ==
    /\ rx_open
    /\ cancel
    /\ rx_open' = FALSE
    /\ probe_tx' = <<>>
    /\ last' = "receiver_exit"
    /\ UNCHANGED <<call, ixStore, workerVars, count, engineVars, sessionVars, pending, reaper_on,
                   cancel, uiVars>>

\* a reaper that visits entry id and leaves it in the table
ReapIdKeepsEntry(id) ==
    /\ reaper_on
    /\ id \in pending
    /\ last' = "reap"
    /\ UNCHANGED <<call, ixStore, workerVars, count, engineVars, sessionVars, pending,
                   probe_tx, rx_open, reaper_on, cancel, uiVars>>

\* the reaper removes entry id, older than the timeout (time is not
\* modelled: any entry may have aged enough)
ReapId(id) ==
    /\ reaper_on
    /\ id \in pending
    /\ pending' = pending \ {id}
    /\ last' = "reap"
    /\ UNCHANGED <<call, ixStore, workerVars, count, engineVars, sessionVars, probe_tx,
                   rx_open, reaper_on, cancel, uiVars>>

Reap == \E id \in Ttls \X Seqs : ReapId(id)

\* the reaper ends on cancellation
ReaperExit ==
    /\ reaper_on
    /\ cancel
    /\ reaper_on' = FALSE
    /\ last' = "reaper_exit"
    /\ UNCHANGED <<call, ixStore, workerVars, count, engineVars, sessionVars, pending, probe_tx,
                   rx_open, cancel, uiVars>>

\* session.paused is written on behalf of the user (design document; the
\* Session of state/session.rs has no writer for it)
TogglePaused ==
    /\ ui_pc = "run"
    /\ paused' = ~paused
    /\ last' = "toggle_paused"
    /\ UNCHANGED <<call, ixStore, workerVars, count, engineVars, hops, complete, session_total_sent,
                   pending, probe_tx, rx_open, reaper_on, cancel, uiVars>>

\* -------------------------------------------------------------- tui/app.rs
\* run_app: top of the loop, cancel.is_cancelled()
UiCancelled ==
    /\ ui_pc = "run"
    /\ cancel
    /\ ui_pc' = "done"
    /\ last' = "ui_cancelled"
    /\ UNCHANGED <<call, ixStore, workerVars, count, engineVars, sessionVars, pending, probe_tx,
                   rx_open, reaper_on, cancel, ui_paused>>

\* run_app: KeyCode::Char('p')
KeyP ==
    /\ ui_pc = "run"
    /\ ui_paused' = ~ui_paused
    /\ last' = "key_p"
    /\ UNCHANGED <<call, ixStore, workerVars, count, engineVars, sessionVars, pending, probe_tx,
                   rx_open, reaper_on, cancel, ui_pc>>

\* run_app: KeyCode::Char('q')
KeyQ ==
    /\ ui_pc = "run"
    /\ cancel' = TRUE
    /\ ui_pc' = "done"
    /\ last' = "key_q"
    /\ UNCHANGED <<call, ixStore, workerVars, count, engineVars, sessionVars, pending, probe_tx,
                   rx_open, reaper_on, ui_paused>>

\* ----------------------------------------------------------- lookup/rdns.rs
\* the enumerations of set S without repetition: the iteration orders of a
\* HashMap holding S
Orders(S) ==
    {q \in [1..Cardinality(S) -> S] : \A a \in S : \E i \in DOMAIN q : q[i] = a}

\* f[1] \o ... \o f[n]: flat_map over the hops
RECURSIVE Flatten(_, _)
Flatten(f, n) == IF n = 0 THEN <<>> ELSE Flatten(f, n - 1) \o f[n]

\* Iterator::take
Take(q, n) == SubSeq(q, 1, IF Len(q) < n THEN Len(q) ELSE n)

\* a filter that lets every responder through
NeedyAlways(t, ip, fld) == ip \in DOMAIN hops[t].responders

\* stats.hostname.is_none() / stats.ix.is_none()
Needy(t, ip, fld) == hops[t].responders[ip][fld] = None

\* the lists that flat_map + filter can produce: per hop, the responders
\* whose field fld is still None, in some iteration order of the hop's map
NeedyLists(fld) ==
    LET perHop(t) == {ip \in DOMAIN hops[t].responders : Needy(t, ip, fld)}
        choices == {g \in [Ttls -> UNION {Orders(X) : X \in SUBSET IPs}] :
                       \A t \in Ttls : g[t] \in Orders(perHop(t))}
    IN {Flatten(g, MaxTtl) : g \in choices}

\* the name the resolver returns for ip, trailing dot trimmed
HostName(ip) == IF ip = Target THEN "target.example" ELSE "router.example"

\* an enrichment write that builds every hop anew around its responders
WriteEnrichmentRebuild(ip, fld, v) ==
    [t \in Ttls |->
        [NewHop(t) EXCEPT !.primary = hops[t].primary,
                       !.responders =
            [a \in DOMAIN hops[t].responders |->
                IF a = ip
                THEN [hops[t].responders[a] EXCEPT ![fld] = v]
                ELSE hops[t].responders[a]]]]

\* for hop in &mut state.hops: the stats of ip, where present, get field fld
\* set to v
WriteEnrichment(ip, fld, v) ==
    [t \in Ttls |->
        [hops[t] EXCEPT !.responders =
            [a \in DOMAIN hops[t].responders |->
                IF a = ip
                THEN [hops[t].responders[a] EXCEPT ![fld] = v]
                ELSE hops[t].responders[a]]]]

\* run_dns_worker, select!: the cancelled() branch
DnsCancelled ==
    /\ dns_pc = "select"
    /\ cancel
    /\ dns_pc' = "done"
    /\ last' = "dns_cancelled"
    /\ UNCHANGED <<call, ixStore, dns_batch, dns_cache, ixVars, count, engineVars,
                   sessionVars, pending, probe_tx, rx_open, reaper_on, cancel,
                   uiVars>>

\* run_dns_worker, select!: the tick branch collects ips_to_lookup under the
\* read lock and keeps the first 10
DnsTick ==
    /\ dns_pc = "select"
    /\ \E q \in NeedyLists("hostname") : dns_batch' = Take(q, 10)
    /\ dns_pc' = "batch"
    /\ last' = "dns_tick"
    /\ UNCHANGED <<call, ixStore, dns_cache, ixVars, count, engineVars, sessionVars, pending,
                   probe_tx, rx_open, reaper_on, cancel, uiVars>>

\* the for loop over the batch ends: no address left, or cancel.is_cancelled()
DnsBatchEnd ==
    /\ dns_pc = "batch"
    /\ dns_batch = <<>> \/ cancel
    /\ dns_batch' = <<>>
    /\ dns_pc' = "select"
    /\ last' = "dns_batch_end"
    /\ UNCHANGED <<call, ixStore, dns_cache, ixVars, count, engineVars, sessionVars, pending,
                   probe_tx, rx_open, reaper_on, cancel, uiVars>>

\* what the loop body does with the result of reverse_lookup(ip)
DnsApply(ip, hostname) ==
    /\ hops' = IF hostname # None
               THEN WriteEnrichment(ip, "hostname", hostname) ELSE hops
    /\ dns_batch' = Tail(dns_batch)

\* reverse_lookup answers from a cache entry younger than cache_ttl
DnsLookupCached ==
    /\ dns_pc = "batch"
    /\ dns_batch # <<>>
    /\ ~cancel
    /\ Head(dns_batch) \in DOMAIN dns_cache
    /\ DnsApply(Head(dns_batch), dns_cache[Head(dns_batch)])
    /\ last' = "dns_cached"
    /\ UNCHANGED <<call, ixStore, dns_pc, dns_cache, ixVars, count, engineVars, complete,
                   session_total_sent, paused, pending, probe_tx, rx_open,
                   reaper_on, cancel, uiVars>>

\* reverse_lookup finds no fresh cache entry and awaits the resolver
DnsQuery ==
    /\ dns_pc = "batch"
    /\ dns_batch # <<>>
    /\ ~cancel
    /\ Head(dns_batch) \notin DOMAIN dns_cache
    /\ dns_pc' = "query"
    /\ last' = "dns_query"
    /\ UNCHANGED <<call, ixStore, dns_batch, dns_cache, ixVars, count, engineVars,
                   sessionVars, pending, probe_tx, rx_open, reaper_on, cancel,
                   uiVars>>

\* the resolver answers with a name or with nothing (error or empty answer);
\* either result is cached and handed to the loop body
DnsQueryDone ==
    /\ dns_pc = "query"
    /\ \E hostname \in {None, HostName(Head(dns_batch))} :
          /\ dns_cache' = [a \in DOMAIN dns_cache \cup {Head(dns_batch)} |->
                             IF a = Head(dns_batch) THEN hostname
                             ELSE dns_cache[a]]
          /\ DnsApply(Head(dns_batch), hostname)
    /\ dns_pc' = "batch"
    /\ last' = "dns_query_done"
    /\ UNCHANGED <<call, ixStore, ixVars, count, engineVars, complete, session_total_sent,
                   paused, pending, probe_tx, rx_open, reaper_on, cancel,
                   uiVars>>

\* ------------------------------------------------------------- lookup/ix.rs
\* const MAX_CONCURRENT_LOOKUPS
MAX_CONCURRENT_LOOKUPS == 10

\* the exchange whose prefix contains ip in the loaded prefix table: the
\* router sits on a peering LAN, the target does not
IxOf(ip) == IF ip = Router THEN "LINX" ELSE None

\* run_ix_worker, select!: the cancelled() branch
IxCancelled ==
    /\ ix_pc = "select"
    /\ cancel
    /\ ix_pc' = "done"
    /\ last' = "ix_cancelled"
    /\ UNCHANGED <<call, ixStore, ix_batch, ix_loaded, dnsVars, count, engineVars,
                   sessionVars, pending, probe_tx, rx_open, reaper_on, cancel,
                   uiVars>>

\* run_ix_worker, select!: the tick branch finds no address without ix:
\* continue
IxTickIdle ==
    /\ ix_pc = "select"
    /\ NeedyLists("ix") = {<<>>}
    /\ last' = "ix_tick_idle"
    /\ UNCHANGED <<call, ixStore, ixVars, dnsVars, count, engineVars, sessionVars, pending,
                   probe_tx, rx_open, reaper_on, cancel, uiVars>>

\* run_ix_worker, select!: the tick branch takes the first
\* MAX_CONCURRENT_LOOKUPS addresses and awaits join_all of their lookups
IxTick ==
    /\ ix_pc = "select"
    /\ \E q \in NeedyLists("ix") :
          /\ q # <<>>
          /\ ix_batch' = Take(q, MAX_CONCURRENT_LOOKUPS)
    /\ ix_pc' = "join"
    /\ last' = "ix_tick"
    /\ UNCHANGED <<call, ixStore, ix_loaded, dnsVars, count, engineVars, sessionVars,
                   pending, probe_tx, rx_open, reaper_on, cancel, uiVars>>

\* join_all returns.  The lookups in served had the prefix data at hand
\* (loaded before, or their load_data succeeded) and return the exchange
\* of their address; the others return None.  Every positive result is
\* written to the stats of that address in every hop
IxJoinDone ==
    /\ ix_pc = "join"
    /\ LET batch == {ix_batch[i] : i \in DOMAIN ix_batch}
       IN \E served \in SUBSET batch :
            /\ ix_loaded => served = batch
            /\ ix_loaded' = (ix_loaded \/ served # {})
            /\ hops' = [t \in Ttls |->
                  [hops[t] EXCEPT !.responders =
                    [a \in DOMAIN hops[t].responders |->
                      IF a \in served /\ IxOf(a) # None
                      THEN [hops[t].responders[a] EXCEPT !.ix = IxOf(a)]
                      ELSE hops[t].responders[a]]]]
    /\ ix_batch' = <<>>
    /\ ix_pc' = "select"
    /\ last' = "ix_join_done"
    /\ UNCHANGED <<call, ixStore, dnsVars, count, engineVars, complete, session_total_sent,
                   paused, pending, probe_tx, rx_open, reaper_on, cancel,
                   uiVars>>

\* ------------------------------------------------------------ specification
Next ==
    \/ EngineCancelled
    \/ EngineTickPaused
    \/ EngineTickCountReached
    \/ EngineTickSweep
    \/ EngineSkipTtl
    \/ EngineSetTtlFails
    \/ EngineSendFails
    \/ EngineSend
    \/ EngineRecordSent
    \/ EngineNotify
    \/ RecvNotify
    \/ RecvResponse
    \/ ReceiverExit
    \/ Reap
    \/ ReaperExit
    \/ TogglePaused
    \/ UiCancelled
    \/ KeyP
    \/ KeyQ

Spec == Init /\ [][Next]_vars

\* ---------------------------------------------------- shutdown specification
\* A session one completed sweep old (seq = 1, one probe per hop) in which
\* hop 1 has answered and the deeper hops are silent, their probes still
\* pending: the destination itself at hop 1, or a router.
RespondedBy(ip) ==
    [NewHops[1] EXCEPT
        !.sent = 1, !.received = 1,
        !.responders = [a \in {ip} |-> [NewResponderStats EXCEPT !.sent = 1,
                                                                 !.received = 1]],
        !.primary = ip]

Silent(t) == [NewHops[t] EXCEPT !.sent = 1]

MidSessionHops ==
    {[t \in Ttls |-> IF t = 1 THEN RespondedBy(ip) ELSE Silent(t)] : ip \in IPs}

MidSession ==
    /\ count \in CountOpts
    /\ epc = "select"
    /\ ttl = 1
    /\ seq = 1
    /\ total_sent = MaxTtl
    /\ fails = 0
    /\ wire = [t \in Ttls |-> 1]
    /\ hops \in MidSessionHops
    /\ complete = (Target \in DOMAIN hops[1].responders)
    /\ session_total_sent = MaxTtl
    /\ paused = FALSE
    /\ pending = {ProbeId(t, 0) : t \in {u \in Ttls : hops[u].received = 0}}
    /\ probe_tx = <<>>
    /\ rx_open = TRUE
    /\ reaper_on = TRUE
    /\ cancel = FALSE
    /\ ui_paused = FALSE
    /\ ui_pc = "run"
    /\ dns_pc = "select"
    /\ dns_batch = <<>>
    /\ dns_cache = [ip \in {} |-> None]
    /\ ix_pc = "select"
    /\ ix_batch = <<>>
    /\ ix_loaded = FALSE
    /\ IxLookupNew
    /\ ix_disk = NoFile
    /\ call = NoCall

InitShutdown == MidSession /\ last = "init"

\* the steps of a TTL sweep between two select! points
EngineStep ==
    \/ EngineSkipTtl
    \/ EngineSetTtlFails
    \/ EngineSendFails
    \/ EngineSend
    \/ EngineRecordSent
    \/ EngineNotify

\* the steps of one batch of the RDNS worker
DnsStep ==
    \/ DnsBatchEnd
    \/ DnsLookupCached
    \/ DnsQuery
    \/ DnsQueryDone

NextShutdown ==
    \/ EngineCancelled
    \/ EngineTickPaused
    \/ EngineTickCountReached
    \/ EngineTickSweep
    \/ EngineStep
    \/ RecvNotify
    \/ ReceiverExit
    \/ TogglePaused
    \/ UiCancelled
    \/ KeyQ
    \/ DnsCancelled
    \/ DnsTick
    \/ DnsStep
    \/ IxCancelled
    \/ IxTickIdle
    \/ IxTick
    \/ IxJoinDone

\* A task that can run does run and an awaited send, query or fetch comes
\* back (WF); select! takes the cancelled() branch sooner or later once the
\* token has fired (SF); the receive loop leaves on cancellation (WF).
ShutdownFairness ==
    /\ WF_vars(EngineStep)
    /\ WF_vars(DnsStep)
    /\ WF_vars(IxJoinDone)
    /\ WF_vars(ReceiverExit)
    /\ SF_vars(EngineCancelled)
    /\ SF_vars(DnsCancelled)
    /\ SF_vars(IxCancelled)

ShutdownSpec == InitShutdown /\ [][NextShutdown]_vars /\ ShutdownFairness

\* ----------------------------------------------------- pending-table liveness
\* the reaper comes round to every entry that stays in the table
ReaperFairness == \A id \in Ttls \X Seqs : WF_vars(ReapId(id))

\* the tasks that touch the pending table or decide how long it is served:
\* the engine, the receive side, the reaper and the quit key
NextPending ==
    \/ EngineCancelled
    \/ EngineTickCountReached
    \/ EngineTickSweep
    \/ EngineStep
    \/ RecvNotify
    \/ RecvResponse
    \/ ReceiverExit
    \/ Reap
    \/ ReaperExit
    \/ KeyQ

PendingSpec == Init /\ [][NextPending]_vars /\ ReaperFairness

\* ------------------------------------------------------ counted sessions
\* a session started with --count: the engine, the receive side that drains
\* the channel and answers, the pause flag and the quit key
InitCounted == Init /\ count # <<>>

NextCounted ==
    \/ EngineCancelled
    \/ EngineTickPaused
    \/ EngineTickCountReached
    \/ EngineTickSweep
    \/ EngineStep
    \/ RecvNotify
    \/ RecvResponse
    \/ ReceiverExit
    \/ TogglePaused
    \/ KeyQ

\* The interval keeps ticking and the session is not paused forever, so a
\* tick finds it unpaused again and again (SF on the unpaused tick
\* branches); a started sweep goes on, its sends and its notification
\* return (WF); the receive loop keeps taking notifications off the channel
\* (WF).
CountedFairness ==
    /\ SF_vars(EngineTickSweep)
    /\ SF_vars(EngineTickCountReached)
    /\ WF_vars(EngineStep)
    /\ WF_vars(RecvNotify)

CountedSpec == InitCounted /\ [][NextCounted]_vars /\ CountedFairness

\* ------------------------------------------------------- session lifetime
\* every task that writes to the hops of a running session or to the pending
\* table: the engine on a socket that accepts every packet, the receive side
\* with the updater, the reaper and both enrichment workers
NextLifetime ==
    \/ EngineSkipTtl
    \/ EngineSend
    \/ EngineRecordSent
    \/ EngineNotify
    \/ RecvNotify
    \/ RecvResponse
    \/ Reap
    \/ DnsTick
    \/ DnsStep
    \/ IxTickIdle
    \/ IxTick
    \/ IxJoinDone

\* A session without count limit in its last modelled sweep, the engine
\* about to probe the deepest TTL: every earlier probe is recorded, the
\* first probe of hop 1 was answered by a router, its latest probe is
\* pending, the other probes timed out and were reaped, and the workers
\* have not run yet.
LateSweepSent(t) == IF t < MaxTtl THEN MaxTicks ELSE MaxTicks - 1

InitLifetime ==
    /\ count = <<>>
    /\ epc = "sweep"
    /\ ttl = MaxTtl
    /\ seq = MaxTicks - 1
    /\ total_sent = SumTo([t \in Ttls |-> LateSweepSent(t)], MaxTtl)
    /\ fails = 0
    /\ wire = [t \in Ttls |-> LateSweepSent(t)]
    /\ hops = [t \in Ttls |->
                 IF t = 1
                 THEN [RespondedBy(Router) EXCEPT !.sent = LateSweepSent(t)]
                 ELSE [NewHops[t] EXCEPT !.sent = LateSweepSent(t)]]
    /\ complete = FALSE
    /\ session_total_sent = total_sent
    /\ paused = FALSE
    /\ pending = {ProbeId(1, MaxTicks - 1)}
    /\ probe_tx = <<>>
    /\ rx_open = TRUE
    /\ reaper_on = TRUE
    /\ cancel = FALSE
    /\ ui_paused = FALSE
    /\ ui_pc = "run"
    /\ dns_pc = "select"
    /\ dns_batch = <<>>
    /\ dns_cache = [ip \in {} |-> None]
    /\ ix_pc = "select"
    /\ ix_batch = <<>>
    /\ ix_loaded = FALSE
    /\ IxLookupNew
    /\ ix_disk = NoFile
    /\ call = NoCall
    /\ last = "recv_notify"

LifetimeSpec == InitLifetime /\ [][NextLifetime]_vars

\* ------------------------------------------------------ probe/correlate.rs
\* everything but call and last: untouched while a function is examined
idle == <<workerVars, ixStore, count, engineVars, sessionVars, pending,
          probe_tx, rx_open, reaper_on, cancel, uiVars>>

\* d[i] of a byte slice, indices from 0
At(d, i) == d[i + 1]

\* &d[n..] of a byte slice; the caller has made sure that n <= d.len()
SliceFrom(d, n) == SubSeq(d, n + 1, Len(d))

\* u16::from_be_bytes([hi, lo])
FromBeBytes(hi, lo) == hi * 256 + lo

\* ProbeId::from_sequence: ttl = (seq >> 8) as u8, seq = (seq & 0xFF) as u8
FromSequence(sequence) == ProbeId((sequence \div 256) % 256, sequence % 256)

\* Ipv4Packet::get_header_length: the low nibble of the first byte
HeaderLength(d) == At(d, 0) % 16

\* the outcomes of a call: Some(ParsedResponse), None, or a panic on an
\* index or a slice bound past the end of the data
Fault == [kind |-> "fault"]
Rejected == [kind |-> "none"]
Parsed(responder, sequence, response_type) ==
    [kind |-> "some", responder |-> responder,
     probe_id |-> FromSequence(sequence), response_type |-> response_type]

\* a parse_icmp_error_payload that trusts the embedded header length
ParseIcmpErrorPayloadTrustsIhl(icmp_data, responder, our_identifier, response_type) ==
    IF Len(icmp_data) < 8 + 20 + 8 THEN Rejected
    ELSE LET original_ip_data == SliceFrom(icmp_data, 8)
             orig_ihl == HeaderLength(original_ip_data) * 4
         IN IF orig_ihl > Len(original_ip_data) THEN Fault
            ELSE LET original_icmp_data == SliceFrom(original_ip_data, orig_ihl)
                 IN IF Len(original_icmp_data) < 1 THEN Fault
                    ELSE IF At(original_icmp_data, 0) # 8 THEN Rejected
                    ELSE IF Len(original_icmp_data) < 8 THEN Fault
                    ELSE IF FromBeBytes(At(original_icmp_data, 4),
                                        At(original_icmp_data, 5))
                               # our_identifier
                         THEN Rejected
                         ELSE Parsed(responder,
                                     FromBeBytes(At(original_icmp_data, 6),
                                                 At(original_icmp_data, 7)),
                                     response_type)

\* a parse_icmp_error_payload that does not compare the identifier
ParseIcmpErrorPayloadAnyId(icmp_data, responder, our_identifier, response_type) ==
    IF Len(icmp_data) < 8 + 20 + 8 THEN Rejected
    ELSE LET original_ip_data == SliceFrom(icmp_data, 8)
             orig_ihl == HeaderLength(original_ip_data) * 4
         IN IF Len(original_ip_data) < orig_ihl + 8 THEN Rejected
            ELSE LET original_icmp_data == SliceFrom(original_ip_data, orig_ihl)
                 IN IF At(original_icmp_data, 0) # 8 THEN Rejected
                    ELSE Parsed(responder,
                                FromBeBytes(At(original_icmp_data, 6),
                                            At(original_icmp_data, 7)),
                                response_type)

\* a parse_icmp_error_payload that does not look at the embedded ICMP type
ParseIcmpErrorPayloadAnyType(icmp_data, responder, our_identifier, response_type) ==
    IF Len(icmp_data) < 8 + 20 + 8 THEN Rejected
    ELSE LET original_ip_data == SliceFrom(icmp_data, 8)
             orig_ihl == HeaderLength(original_ip_data) * 4
         IN IF Len(original_ip_data) < orig_ihl + 8 THEN Rejected
            ELSE LET original_icmp_data == SliceFrom(original_ip_data, orig_ihl)
                 IN IF FromBeBytes(At(original_icmp_data, 4),
                                   At(original_icmp_data, 5))
                          # our_identifier
                    THEN Rejected
                    ELSE Parsed(responder,
                                FromBeBytes(At(original_icmp_data, 6),
                                            At(original_icmp_data, 7)),
                                response_type)

\* parse_icmp_error_payload.  Every index and slice bound is compared with
\* the length it is applied to, as the bounds checks of the build do
ParseIcmpErrorPayload(icmp_data, responder, our_identifier, response_type) ==
    IF Len(icmp_data) < 8 + 20 + 8 THEN Rejected
    ELSE IF 8 > Len(icmp_data) THEN Fault
    ELSE LET original_ip_data == SliceFrom(icmp_data, 8)
         IN \* Ipv4Packet::new(original_ip_data)?
            IF Len(original_ip_data) < 20 THEN Rejected
            ELSE LET orig_ihl == HeaderLength(original_ip_data) * 4
                 IN IF Len(original_ip_data) < orig_ihl + 8 THEN Rejected
                    ELSE IF orig_ihl > Len(original_ip_data) THEN Fault
                    ELSE LET original_icmp_data ==
                                 SliceFrom(original_ip_data, orig_ihl)
                         IN IF Len(original_icmp_data) < 1 THEN Fault
                            ELSE IF At(original_icmp_data, 0) # 8 THEN Rejected
                            ELSE IF Len(original_icmp_data) < 8 THEN Fault
                            ELSE IF FromBeBytes(At(original_icmp_data, 4),
                                                At(original_icmp_data, 5))
                                       # our_identifier
                                 THEN Rejected
                                 ELSE Parsed(responder,
                                             FromBeBytes(At(original_icmp_data, 6),
                                                         At(original_icmp_data, 7)),
                                             response_type)

\* parse_icmp_response
ParseIcmpResponse(data, responder, our_identifier) ==
    \* Ipv4Packet::new(data)?
    IF Len(data) < 20 THEN Rejected
    ELSE LET ip_header_len == HeaderLength(data) * 4
         IN IF Len(data) < ip_header_len + 8 THEN Rejected
            ELSE IF ip_header_len > Len(data) THEN Fault
            ELSE LET icmp_data == SliceFrom(data, ip_header_len)
                     icmp_type == At(icmp_data, 0)
                 IN \* IcmpPacket::new(icmp_data)?
                    IF Len(icmp_data) < 4 THEN Rejected
                    ELSE CASE icmp_type = 0 ->
                                IF Len(icmp_data) < 8 THEN Rejected
                                ELSE IF FromBeBytes(At(icmp_data, 4),
                                                    At(icmp_data, 5))
                                           # our_identifier
                                     THEN Rejected
                                     ELSE Parsed(responder,
                                                 FromBeBytes(At(icmp_data, 6),
                                                             At(icmp_data, 7)),
                                                 <<"EchoReply">>)
                           [] icmp_type = 11 ->
                                ParseIcmpErrorPayload(icmp_data, responder,
                                    our_identifier, <<"TimeExceeded">>)
                           [] icmp_type = 3 ->
                                ParseIcmpErrorPayload(icmp_data, responder,
                                    our_identifier,
                                    <<"DestUnreachable", At(icmp_data, 1)>>)
                           [] OTHER -> Rejected

\* ---- the datagrams handed to the correlator
\* the identifier of this session (0x1234) and identifiers that differ from
\* it in the low byte, in the high byte
OurIdentifier == 18 * 256 + 52
Identifiers == {OurIdentifier, OurIdentifier + 1, OurIdentifier + 256}

\* d with the bytes of b written from offset off on, as far as d reaches
Overlay(d, off, b) ==
    [i \in 1..Len(d) |->
        IF off < i /\ i <= off + Len(b) THEN b[i - off] ELSE d[i]]

\* the eight bytes of an ICMP echo header
IcmpHeader(ty, code, identifier, sequence) ==
    <<ty, code, 0, 0, identifier \div 256, identifier % 256,
      sequence \div 256, sequence % 256>>

\* len bytes of a datagram: an IPv4 header of ihl words, an ICMP header, and
\* behind it an embedded IPv4 header of ihl2 words with its ICMP header;
\* what does not fit into len bytes is cut off
Datagram(len, ihl, icmp, ihl2, icmp2) ==
    LET zeros == [i \in 1..len |-> 0]
        outer == Overlay(zeros, 0, <<64 + ihl>>)
        withIcmp == Overlay(outer, ihl * 4, icmp)
        inner == Overlay(withIcmp, ihl * 4 + 8, <<64 + ihl2>>)
    IN Overlay(inner, ihl * 4 + 8 + ihl2 * 4, icmp2)

\* header lengths in words: none, the usual five, one word of options
Ihls == {0, 5, 6}
\* ICMP types: EchoReply, DestinationUnreachable, EchoRequest, TimeExceeded
IcmpTypes == {0, 3, 8, 11}

\* the receive loop hands one datagram to parse_icmp_response
ParseCall ==
    /\ call = NoCall
    /\ \E len \in 0..MaxPacketLen, ihl \in Ihls, ty \in IcmpTypes,
          id \in Identifiers, ihl2 \in Ihls, ty2 \in {0, 8},
          id2 \in Identifiers, s \in Seqs, s2 \in Seqs :
          LET data == Datagram(len, ihl,
                               IcmpHeader(ty, 1, id, MaxTtl * 256 + s), ihl2,
                               IcmpHeader(ty2, 0, id2, MaxTtl * 256 + s2))
          IN call' = [fn |-> "parse_icmp_response", data |-> data,
                      our_identifier |-> OurIdentifier,
                      result |-> ParseIcmpResponse(data, Router, OurIdentifier)]
    /\ UNCHANGED <<idle, last>>

ParseSpec == Init /\ [][ParseCall]_vars

\* ------------------------------------------------------- ProbeId encoding
\* the values of a u8
U8 == 0..255

\* a | b on the low n bits
RECURSIVE BitOr(_, _, _)
BitOr(a, b, n) ==
    IF n = 0 THEN 0
    ELSE (IF a % 2 = 1 \/ b % 2 = 1 THEN 1 ELSE 0)
         + 2 * BitOr(a \div 2, b \div 2, n - 1)

\* a to_sequence that shifts the TTL by four bits only
ToSequenceNarrowShift(id) == BitOr((id[1] * 16) % 65536, id[2], 16)

\* ProbeId::to_sequence: ((ttl as u16) << 8) | (seq as u16)
ToSequence(id) == BitOr((id[1] * 256) % 65536, id[2], 16)

\* test_probe_id_round_trip for one ProbeId: encode, then decode
RoundTripCall ==
    /\ call = NoCall
    /\ \E t \in U8, s \in U8 :
          call' = [fn |-> "probe_id_round_trip", id |-> ProbeId(t, s),
                   sequence |-> ToSequence(ProbeId(t, s)),
                   decoded |-> FromSequence(ToSequence(ProbeId(t, s)))]
    /\ UNCHANGED <<idle, last>>

RoundTripSpec == Init /\ [][RoundTripCall]_vars

\* ------------------------------------------------------ IxCache::is_expired
\* now - self.fetched_at > MAX_AGE_SECS, for a cache that is not younger
\* than the clock
IsExpired(now, fetched_at) == now - fetched_at > MAX_AGE_SECS

\* what a call of is_expired comes to.  For a cache stamped later than the
\* clock the u64 subtraction underflows: a build with overflow checks
\* panics, a build without them wraps to a huge age
IsExpiredOutcomes(now, fetched_at) ==
    IF fetched_at > now THEN {"panic", "expired"}
    ELSE {IF IsExpired(now, fetched_at) THEN "expired" ELSE "fresh"}

\* the ages examined: every full hour up to 25 hours, a second less and a
\* second more
CacheAges == {h * 3600 + d : h \in 0..25, d \in {0 - 1, 0, 1}}

\* test_ix_cache_expiry for one cache age
ExpiryCall ==
    /\ call = NoCall
    /\ \E now \in {Clock0, Clock0 + 1}, age \in CacheAges :
          \E r \in IsExpiredOutcomes(now, now - age) :
              call' = [fn |-> "is_expired", now |-> now,
                       fetched_at |-> now - age, result |-> r]
    /\ UNCHANGED <<idle, last>>

ExpirySpec == Init /\ [][ExpiryCall]_vars

\* -------------------------------------------------------- IxLookup::lookup
\* everything IxLookup does not touch
ixFrame == <<dnsVars, ix_pc, ix_batch, count, engineVars, sessionVars,
             pending, probe_tx, rx_open, reaper_on, cancel, uiVars, call>>

\* the addresses of test_prefix_matching
Inside == <<206, 223, 115, 100>>
Outside == <<206, 223, 116, 100>>
IxAddrs == {Inside, Outside}

\* a prefix string that parses to a network, and one that does not parse
Net(addr, len) == [ok |-> TRUE, addr |-> addr, len |-> len]
Unparsable == [ok |-> FALSE, addr |-> <<0, 0, 0, 0>>, len |-> 0]

RECURSIVE Pow2(_)
Pow2(n) == IF n = 0 THEN 1 ELSE 2 * Pow2(n - 1)

\* the bits of octet k that a mask of len bits covers
CoveredBits(len, k) ==
    LET r == len - 8 * (k - 1)
    IN IF r < 0 THEN 0 ELSE IF r > 8 THEN 8 ELSE r

\* a containment test that compares the first sixteen bits, whatever the
\* length of the prefix
ContainsSixteenBits(network, ip) ==
    \A k \in 1..2 : ip[k] = network.addr[k]

\* IpNetwork::contains: ip and the network agree on the masked bits
Contains(network, ip) ==
    \A k \in 1..4 :
        LET low == Pow2(8 - CoveredBits(network.len, k))
        IN ip[k] \div low = network.addr[k] \div low

\* the prefix list the provider serves, and the list an earlier run left
\* in the cache file
ProviderPrefixes ==
    <<[prefix |-> Net(<<206, 223, 115, 0>>, 24), ix_name |-> "LINX"],
      [prefix |-> Net(<<206, 223, 115, 0>>, 25), ix_name |-> "LINX-2"]>>
CachedPrefixes ==
    <<[prefix |-> Unparsable, ix_name |-> "Bogus"],
      [prefix |-> Net(<<206, 223, 112, 0>>, 21), ix_name |-> "LINX-old"]>>

\* the cache files an earlier run may have left: none, or one of either
\* version that is new, close to a day old or 25 hours old at start
DiskFiles ==
    {NoFile} \cup
    {[version |-> v, fetched_at |-> Clock0 - age,
      prefixes |-> CachedPrefixes, exists |-> TRUE] :
        v \in {VERSION, VERSION + 1},
        age \in {0, MAX_AGE_SECS - 1800, 25 * 3600}}

\* a load_cache that does not look at the version
LoadCacheAnyVersion(file) == file.exists

\* load_cache succeeds: the file is there, parses and has the version
LoadCacheOk(file) == file.exists /\ file.version = VERSION

\* populate_from_cache: the entries whose prefix parses, in order
RECURSIVE PopulateFromCache(_)
PopulateFromCache(prefixes) ==
    IF prefixes = <<>> THEN <<>>
    ELSE LET p == Head(prefixes)
         IN (IF p.prefix.ok
             THEN <<[network |-> p.prefix, info |-> p.ix_name]>>
             ELSE <<>>) \o PopulateFromCache(Tail(prefixes))

\* prefixes.iter().find(contains).map(info)
FindIx(prefixes, ip) ==
    LET hits == {i \in 1..Len(prefixes) : Contains(prefixes[i].network, ip)}
    IN IF hits = {} THEN None
       ELSE prefixes[CHOOSE i \in hits : \A j \in hits : i <= j].info

\* the per-IP cache serves ip: an entry younger than ip_cache_ttl
IpCacheHit(ip) ==
    /\ ip \in DOMAIN ip_cache
    /\ clock - ip_cache[ip].time < IpCacheTtl

\* lookup(ip) of task k scans the table prefixes, caches and returns the
\* result
ScanAndCache(k, ip, prefixes) ==
    LET result == FindIx(prefixes, ip)
    IN /\ ip_cache' = [a \in DOMAIN ip_cache \cup {ip} |->
                          IF a = ip THEN [result |-> result, time |-> clock]
                          ELSE ip_cache[a]]
       /\ lk' = [lk EXCEPT ![k] = [pc |-> "done", ip |-> ip,
                                    result |-> result, via |-> "scan"]]

\* lookup(ip) up to its first suspension: the per-IP cache; else, with the
\* data loaded, the scan; else load_data up to the provider fetch, which a
\* readable cache file that is not expired makes unnecessary
LookupStart(k, ip) ==
    /\ lk[k].pc = "idle"
    /\ IF IpCacheHit(ip)
       THEN /\ lk' = [lk EXCEPT ![k] = [pc |-> "done", ip |-> ip,
                                         result |-> ip_cache[ip].result,
                                         via |-> "ip_cache"]]
            /\ last' = "ix_cache_hit"
            /\ UNCHANGED <<ix_loaded, ix_prefixes, ip_cache>>
       ELSE IF ix_loaded
       THEN /\ ScanAndCache(k, ip, ix_prefixes)
            /\ last' = "ix_scan"
            /\ UNCHANGED <<ix_loaded, ix_prefixes>>
       ELSE IF LoadCacheOk(ix_disk) /\ ~IsExpired(clock, ix_disk.fetched_at)
       THEN /\ ix_prefixes' = PopulateFromCache(ix_disk.prefixes)
            /\ ix_loaded' = TRUE
            /\ ScanAndCache(k, ip, PopulateFromCache(ix_disk.prefixes))
            /\ last' = "ix_load_disk"
       ELSE /\ lk' = [lk EXCEPT ![k] = [pc |-> "fetch", ip |-> ip,
                                         result |-> None, via |-> "none"]]
            /\ last' = "ix_fetch"
            /\ UNCHANGED <<ix_loaded, ix_prefixes, ip_cache>>
    /\ UNCHANGED <<ixFrame, clock, ix_disk>>

\* a load_data that gives up when the provider fetch fails
FetchDoneNoFallback(k) ==
    /\ lk[k].pc = "fetch"
    /\ lk' = [lk EXCEPT ![k] = [pc |-> "done", ip |-> lk[k].ip,
                                  result |-> None, via |-> "load_failed"]]
    /\ last' = "ix_fetch_failed"
    /\ UNCHANGED <<ixFrame, clock, ix_disk, ix_loaded, ix_prefixes, ip_cache>>

\* fetch_from_api returns and lookup runs to its end.  Ok: the new cache is
\* saved (a failed save is only warned about), memory is populated from it
\* and the address is looked up.  Err: a readable cache file of any age
\* populates memory instead; without one the load error ends the lookup
\* with None and nothing is marked loaded or cached
FetchDone(k) ==
    /\ lk[k].pc = "fetch"
    /\ \/ \E saved \in BOOLEAN :
            LET cache == [version |-> VERSION, fetched_at |-> clock,
                          prefixes |-> ProviderPrefixes, exists |-> TRUE]
            IN /\ ix_disk' = IF saved THEN cache ELSE ix_disk
               /\ ix_prefixes' = PopulateFromCache(cache.prefixes)
               /\ ix_loaded' = TRUE
               /\ ScanAndCache(k, lk[k].ip, PopulateFromCache(cache.prefixes))
               /\ last' = "ix_fetch_ok"
       \/ /\ LoadCacheOk(ix_disk)
          /\ ix_prefixes' = PopulateFromCache(ix_disk.prefixes)
          /\ ix_loaded' = TRUE
          /\ ScanAndCache(k, lk[k].ip, PopulateFromCache(ix_disk.prefixes))
          /\ last' = "ix_fetch_failed"
          /\ UNCHANGED ix_disk
       \/ /\ ~LoadCacheOk(ix_disk)
          /\ lk' = [lk EXCEPT ![k] = [pc |-> "done", ip |-> lk[k].ip,
                                        result |-> None,
                                        via |-> "load_failed"]]
          /\ last' = "ix_fetch_failed"
          /\ UNCHANGED <<ix_disk, ix_loaded, ix_prefixes, ip_cache>>
    /\ UNCHANGED <<ixFrame, clock>>

\* the caller has the result of lookup k; the slot is free for the next call
LookupReturn(k) ==
    /\ lk[k].pc = "done"
    /\ lk' = [lk EXCEPT ![k] = NoLookup]
    /\ last' = "ix_return"
    /\ UNCHANGED <<ixFrame, clock, ix_disk, ix_loaded, ix_prefixes, ip_cache>>

\* time passes: half an hour or an hour between two steps
AdvanceClock ==
    /\ \E d \in {1800, 3600} :
          /\ clock + d <= Clock0 + MaxElapsed
          /\ clock' = clock + d
    /\ last' = "clock"
    /\ UNCHANGED <<ixFrame, ix_disk, ix_loaded, ix_prefixes, ip_cache, lk>>

NextIx ==
    \/ \E k \in LookupTasks, ip \in IxAddrs : LookupStart(k, ip)
    \/ \E k \in LookupTasks : FetchDone(k)
    \/ \E k \in LookupTasks : LookupReturn(k)
    \/ AdvanceClock

\* a process without count limit that finds any of the cache files
InitIx == InitProcess /\ count = <<>> /\ ix_disk \in DiskFiles

IxSpec == InitIx /\ [][NextIx]_vars

\* ----------------------------------------- ResponderStats::record_response
\* The f64 fields mean_rtt and m2 are held as exact fractions: mean_rtt as a
\* multiple of 1/Scale and m2 as a multiple of 1/Scale^2, where Scale is a
\* common multiple of every sample count up to MaxSamples, so that the
\* division by received leaves no remainder.
RECURSIVE Gcd(_, _)
Gcd(a, b) == IF b = 0 THEN a ELSE Gcd(b, a % b)

RECURSIVE LcmTo(_)
LcmTo(n) == IF n <= 1 THEN 1 ELSE (LcmTo(n - 1) * n) \div Gcd(LcmTo(n - 1), n)

Scale == LcmTo(MaxSamples)

\* Duration::as_micros of a Duration of ns nanoseconds
AsMicros(ns) == ns \div 1000

\* the RTTs that are recorded, in nanoseconds
RttSamples == {0, 1999, 2000, 7500, 50000}

\* the latency fields of ResponderStats::new
NewLatencyStats ==
    [fn |-> "responder_stats", received |-> 0, mean_rtt |-> 0, m2 |-> 0,
     exact |-> TRUE, samples |-> <<>>]

\* a record_response that squares the first delta
StatsRecordResponseNaive(stats, rtt) ==
    LET received == stats.received + 1
        rtt_micros == AsMicros(rtt) * Scale
        delta == rtt_micros - stats.mean_rtt
    IN [fn |-> "responder_stats", received |-> received,
        mean_rtt |-> stats.mean_rtt + delta \div received,
        m2 |-> stats.m2 + delta * delta,
        exact |-> stats.exact /\ delta % received = 0,
        samples |-> Append(stats.samples, rtt)]

\* ResponderStats::record_response: Welford's update of mean_rtt and m2;
\* exact records that no division so far left a remainder
StatsRecordResponse(stats, rtt) ==
    LET received == stats.received + 1
        rtt_micros == AsMicros(rtt) * Scale
        delta == rtt_micros - stats.mean_rtt
        mean_rtt == stats.mean_rtt + delta \div received
        delta2 == rtt_micros - mean_rtt
    IN [fn |-> "responder_stats", received |-> received,
        mean_rtt |-> mean_rtt,
        m2 |-> stats.m2 + delta * delta2,
        exact |-> stats.exact /\ delta % received = 0,
        samples |-> Append(stats.samples, rtt)]

\* the greatest r with r * r <= n: f64::sqrt followed by `as u64`
RECURSIVE FloorSqrtFrom(_, _)
FloorSqrtFrom(n, r) == IF (r + 1) * (r + 1) > n THEN r ELSE FloorSqrtFrom(n, r + 1)

\* ResponderStats::stddev, in microseconds
StdDev(stats) ==
    IF stats.received < 2 THEN 0
    ELSE FloorSqrtFrom(stats.m2 \div (Scale * Scale * stats.received), 0)

\* a responder is seen for the first time
StatsNew ==
    /\ call = NoCall
    /\ call' = NewLatencyStats
    /\ UNCHANGED <<idle, last>>

\* one more response of the responder is recorded
StatsRecord ==
    /\ call.fn = "responder_stats"
    /\ call.received < MaxSamples
    /\ \E rtt \in RttSamples : call' = StatsRecordResponse(call, rtt)
    /\ UNCHANGED <<idle, last>>

NextStats ==
    \/ StatsNew
    \/ StatsRecord

StatsSpec == Init /\ [][NextStats]_vars

\* ------------------------------------------------- lock guards of the tasks
\* The three tasks as programs over their RwLock guards: which guard is
\* taken where, where its scope ends, and where the task awaits.  A position
\* holds one instruction; next is the set of positions that may follow it
\* (0: the task has left its loop).
Acq(lock, mode, next) ==
    [op |-> "acquire", locks |-> {lock}, mode |-> mode, next |-> next]
Await(what, next) ==
    [op |-> "await", locks |-> {what}, mode |-> "", next |-> next]
Run(next) == [op |-> "run", locks |-> {}, mode |-> "", next |-> next]

\* a scope end that keeps its guards alive
RelLeaks(locks, next) == Run(next)

\* the end of the scope of the guards of locks: block end, end of the
\* statement of a temporary, or a continue / return out of the block
Rel(locks, next) ==
    [op |-> "release", locks |-> locks, mode |-> "", next |-> next]

\* ProbeEngine::run (engine.rs 59-133)
EngineLocks ==
    <<Await("tick or cancelled", {2, 0}),          \* 1: 60-64
      Acq("session", "read", {3}),                 \* 2: 67
      Rel({"session"}, {1, 4}),                    \* 3: 69 continue, 71
      Run({0, 5}),                                 \* 4: 74-80
      Run({6, 1}),                                 \* 5: 83, 130
      Acq("session", "read", {7}),                 \* 6: 86
      Rel({"session"}, {5, 8}),                    \* 7: 89, 91-93
      Run({5, 9}),                                 \* 8: 95-109
      Acq("session", "write", {10}),               \* 9: 113
      Rel({"session"}, {11}),                      \* 10: 118
      Await("probe_tx.send", {5})>>                \* 11: 121-127

\* run_dns_worker with DnsLookup::reverse_lookup (rdns.rs 83-116, 38-72)
DnsLocks ==
    <<Await("tick or cancelled", {2, 0}),          \* 1: 84-88
      Acq("session", "read", {3}),                 \* 2: 91
      Rel({"session"}, {4}),                       \* 3: 97
      Run({1, 5}),                                 \* 4: 100-103
      Acq("dns_cache", "read", {6}),               \* 5: 41
      Rel({"dns_cache"}, {7, 10}),                 \* 6: 44 return, 47
      Await("resolver.reverse_lookup", {8}),       \* 7: 50
      Acq("dns_cache", "write", {9}),              \* 8: 61
      Rel({"dns_cache"}, {10}),                    \* 9: 69
      Run({4, 11}),                                \* 10: 105
      Acq("session", "write", {12}),               \* 11: 106
      Rel({"session"}, {4})>>                      \* 12: 112

\* run_ix_worker with one IxLookup::lookup under join_all and load_data
\* (ix.rs 354-413, 137-175, 178-210, 246)
IxLocks ==
    <<Await("tick or cancelled", {2, 0}),          \* 1: 355-359
      Acq("sessions", "read", {3}),                \* 2: 362
      Acq("session", "read", {4}),                 \* 3: 365
      Rel({"session"}, {5}),                       \* 4: 371
      Rel({"sessions"}, {1, 6}),                   \* 5: 373, 375-377
      Acq("ip_cache", "read", {7}),                \* 6: 140
      Acq("ip_cache_times", "read", {8}),          \* 7: 141
      Rel({"ip_cache", "ip_cache_times"}, {9, 22}),\* 8: 144 return, 147
      Acq("loaded", "read", {10}),                 \* 9: 150
      Rel({"loaded"}, {11, 17}),                   \* 10: 150
      Run({12, 16}),                               \* 11: 180-181
      Acq("prefixes", "write", {13}),              \* 12: 246
      Rel({"prefixes"}, {14}),                     \* 13: 246
      Acq("loaded", "write", {15}),                \* 14: 183, 196, 204
      Rel({"loaded"}, {17}),                       \* 15: 183, 196, 204
      Await("fetch_from_api", {12, 22}),           \* 16: 189, 199-207, 151-154
      Acq("prefixes", "read", {18}),               \* 17: 159
      Rel({"prefixes"}, {19}),                     \* 18: 164
      Acq("ip_cache", "write", {20}),              \* 19: 168
      Acq("ip_cache_times", "write", {21}),        \* 20: 169
      Rel({"ip_cache", "ip_cache_times"}, {22}),   \* 21: 172
      Acq("sessions", "read", {23}),               \* 22: 398
      Run({24, 26}),                               \* 23: 399-400
      Acq("session", "write", {25}),               \* 24: 402
      Rel({"session"}, {23, 26}),                  \* 25: 408
      Rel({"sessions"}, {1})>>                     \* 26: 411
\* (position 25 goes back to 23 for the next session or result)

Tasks == {"engine", "dns", "ix"}

Program(task) ==
    CASE task = "engine" -> EngineLocks
      [] task = "dns" -> DnsLocks
      [] task = "ix" -> IxLocks

\* the tasks are spawned: each at the top of its loop, no guard alive
LocksStart ==
    /\ call = NoCall
    /\ call' = [fn |-> "locks", pc |-> [task \in Tasks |-> 1],
                held |-> [task \in Tasks |-> {}]]
    /\ UNCHANGED <<idle, last>>

\* RwLock: a reader waits for a writer, a writer for every other holder
CanAcquire(task, lock, mode) ==
    \A other \in Tasks \ {task} : \A g \in call.held[other] :
        g[1] = lock => (mode = "read" /\ g[2] = "read")

\* task executes the instruction at its position
TaskStep(task) ==
    /\ call.fn = "locks"
    /\ call.pc[task] # 0
    /\ LET ins == Program(task)[call.pc[task]]
           held == call.held[task]
       IN /\ ins.op = "acquire"
                => \A lock \in ins.locks : CanAcquire(task, lock, ins.mode)
          /\ \E n \in ins.next :
                call' = [call EXCEPT
                    !.pc[task] = n,
                    !.held[task] =
                        CASE ins.op = "acquire" ->
                                held \cup {<<lock, ins.mode>> : lock \in ins.locks}
                          [] ins.op = "release" ->
                                {g \in held : g[1] \notin ins.locks}
                          [] OTHER -> held]
    /\ UNCHANGED <<idle, last>>

NextLocks ==
    \/ LocksStart
    \/ \E task \in Tasks : TaskStep(task)

LocksSpec == Init /\ [][NextLocks]_vars

\* ------------------------------------------- run_ix_worker over SessionMap
\* the keys of the SessionMap
SessionIds == 1..MaxSessions

\* the hops of a session in which the responders of hop t are those of
\* at[t], with the ix value given there
HopsWith(at) ==
    [t \in Ttls |->
        [NewHops[t] EXCEPT !.responders =
            [ip \in DOMAIN at[t] |-> [NewResponderStats EXCEPT !.ix = at[t][ip]]]]]

\* responders of one hop, by address, with their ix value
NoResponder == [ip \in {} |-> None]
One(ip, ix) == [a \in {ip} |-> ix]
Both(ixRouter, ixTarget) ==
    [a \in IPs |-> IF a = Router THEN ixRouter ELSE ixTarget]

\* the sessions met: nothing has answered; a router at hop 1 and the target
\* behind it; the same router answering at hop 1 and, beside the target, at
\* the deepest hop; a router enriched at hop 1 on an earlier tick that has
\* since turned up at the deepest hop too
SessionShapes ==
    {HopsWith([t \in Ttls |-> NoResponder]),
     HopsWith([t \in Ttls |-> IF t = 1 THEN One(Router, None)
                              ELSE IF t = MaxTtl THEN One(Target, None)
                              ELSE NoResponder]),
     HopsWith([t \in Ttls |-> IF t = 1 THEN One(Router, None)
                              ELSE IF t = MaxTtl THEN Both(None, None)
                              ELSE NoResponder]),
     HopsWith([t \in Ttls |-> IF t = 1 THEN One(Router, "LINX")
                              ELSE IF t = MaxTtl THEN One(Router, None)
                              ELSE NoResponder])}

\* the lists flat_map + filter can produce over the hops hs of one session
NeedyListsOf(hs, fld) ==
    LET perHop(t) == {ip \in DOMAIN hs[t].responders :
                         hs[t].responders[ip][fld] = None}
        choices == {g \in [Ttls -> UNION {Orders(X) : X \in SUBSET IPs}] :
                       \A t \in Ttls : g[t] \in Orders(perHop(t))}
    IN {Flatten(g, MaxTtl) : g \in choices}

\* ips_to_lookup: the lists of the sessions, in some iteration order of the
\* SessionMap
IpsToLookup(sessions) ==
    LET lists == UNION {NeedyListsOf(sessions[sid], "ix") : sid \in SessionIds}
        choices == {g \in [SessionIds -> lists] :
                       \A sid \in SessionIds :
                           g[sid] \in NeedyListsOf(sessions[sid], "ix")}
    IN {Flatten([i \in 1..MaxSessions |-> g[o[i]]], MaxSessions) :
            g \in choices, o \in Orders(SessionIds)}

\* a write loop that leaves `for hop` after the first entry it finds
SetIxFirstHop(hs, ip, ix_info) ==
    [t \in Ttls |->
        IF /\ ip \in DOMAIN hs[t].responders
           /\ \A u \in Ttls : u < t => ip \notin DOMAIN hs[u].responders
        THEN [hs[t] EXCEPT !.responders[ip].ix = ix_info]
        ELSE hs[t]]

\* for hop in &mut session.hops: the stats of ip, where present, get
\* ix = Some(ix_info)
SetIx(hs, ip, ix_info) ==
    [t \in Ttls |->
        IF ip \in DOMAIN hs[t].responders
        THEN [hs[t] EXCEPT !.responders[ip].ix = ix_info]
        ELSE hs[t]]

\* for (ip, ix_info) in results: a Some is written to every session
RECURSIVE ApplyIxResults(_, _)
ApplyIxResults(sessions, results) ==
    IF results = <<>> THEN sessions
    ELSE LET ip == Head(results)[1]
             ix_info == Head(results)[2]
             written == IF ix_info = None THEN sessions
                        ELSE [sid \in SessionIds |->
                                 SetIx(sessions[sid], ip, ix_info)]
         IN ApplyIxResults(written, Tail(results))

\* one tick of run_ix_worker with its sessions: collect, take the batch,
\* look every address up (a lookup whose load fails returns None, as does
\* one of an address on no peering LAN), write the results
IxWorkerTick ==
    /\ call = NoCall
    /\ \E sessions \in [SessionIds -> SessionShapes] :
        \E q \in IpsToLookup(sessions) :
          LET batch == Take(q, MAX_CONCURRENT_LOOKUPS)
          IN \E served \in [1..Len(batch) -> BOOLEAN] :
               LET results == [i \in 1..Len(batch) |->
                                  <<batch[i],
                                    IF served[i] THEN IxOf(batch[i]) ELSE None>>]
               IN call' = [fn |-> "ix_worker_tick", sessions |-> sessions,
                           results |-> results,
                           after |-> IF batch = <<>> THEN sessions
                                     ELSE ApplyIxResults(sessions, results)]
    /\ UNCHANGED <<idle, last>>

IxWorkerSpec == Init /\ [][IxWorkerTick]_vars

\* ------------------------------------------------ DnsLookup::reverse_lookup
\* DnsLookup.cache_ttl, in seconds
CacheTtl == 3600

\* the stretches of time that pass between two steps: a second, an hour
\* less a second, an hour
Waits == {1, CacheTtl - 1, CacheTtl}

\* the resolver has not answered yet
Pending == "pending"

\* DnsLookup::new: an empty cache; the clock starts with the process.
\* issued lists the resolver queries with the time of issue and the answer
DnsLookupNew ==
    [fn |-> "reverse_lookup", pc |-> "idle", now |-> 0, waits |-> 0,
     cache |-> [a \in {} |-> [hostname |-> None, cached_at |-> 0]],
     ip |-> NoIp, result |-> None, via |-> "none", issued |-> <<>>]

\* entry.cached_at.elapsed() < self.cache_ttl for the entry of ip
CacheFresh(cache, ip, now) ==
    /\ ip \in DOMAIN cache
    /\ now - cache[ip].cached_at < CacheTtl

\* a cache that keeps names only: a lookup without a name leaves no entry
CacheInsertNamesOnly(cache, ip, hostname, now) ==
    IF hostname = None THEN cache
    ELSE [a \in DOMAIN cache \cup {ip} |->
             IF a = ip THEN [hostname |-> hostname, cached_at |-> now]
             ELSE cache[a]]

\* cache.insert(ip, CacheEntry { hostname, cached_at: Instant::now() })
CacheInsert(cache, ip, hostname, now) ==
    [a \in DOMAIN cache \cup {ip} |->
        IF a = ip THEN [hostname |-> hostname, cached_at |-> now]
        ELSE cache[a]]

\* the DnsLookup is constructed
ReverseLookupNew ==
    /\ call = NoCall
    /\ call' = DnsLookupNew
    /\ UNCHANGED <<idle, last>>

\* reverse_lookup(ip) up to its return from the cache or to the await of
\* the resolver
ReverseLookupCall ==
    /\ call.fn = "reverse_lookup"
    /\ call.pc = "idle"
    /\ \E ip \in IPs :
          IF CacheFresh(call.cache, ip, call.now)
          THEN call' = [call EXCEPT !.ip = ip, !.via = "cache",
                                    !.result = call.cache[ip].hostname]
          ELSE /\ Len(call.issued) < MaxQueries
               /\ call' = [call EXCEPT !.ip = ip, !.pc = "await",
                                       !.via = "none", !.result = None,
                                       !.issued = Append(@,
                                           [ip |-> ip, at |-> call.now,
                                            answer |-> Pending])]
    /\ UNCHANGED <<idle, last>>

\* the resolver answers with a name, or with an error or an empty answer;
\* the result is cached and returned
ResolverAnswers ==
    /\ call.fn = "reverse_lookup"
    /\ call.pc = "await"
    /\ \E hostname \in {None, HostName(call.ip)} :
          call' = [call EXCEPT
                      !.pc = "idle", !.via = "resolver",
                      !.result = hostname,
                      !.cache = CacheInsert(@, call.ip, hostname, call.now),
                      !.issued[Len(call.issued)].answer = hostname]
    /\ UNCHANGED <<idle, last>>

\* time passes, between two calls or while the resolver is awaited
TimePasses ==
    /\ call.fn = "reverse_lookup"
    /\ call.waits < MaxWaits
    /\ \E d \in Waits : call' = [call EXCEPT !.now = @ + d, !.waits = @ + 1]
    /\ UNCHANGED <<idle, last>>

NextReverseLookup ==
    \/ ReverseLookupNew
    \/ ReverseLookupCall
    \/ ResolverAnswers
    \/ TimePasses

ReverseLookupSpec == Init /\ [][NextReverseLookup]_vars

\* ------------------------------------------- ResponderStats.recent window
\* the length past which the recent window drops its front
RecentCapacity == 60

\* Option<Duration>: None is <<>>, Some(rtt) is <<rtt>>
NoRtt == <<>>
SomeRtt(rtt) == <<rtt>>

\* a window that drops its newest entry when it is full
PushRecentDropsNewest(recent, entry) ==
    IF Len(recent) + 1 > RecentCapacity THEN recent ELSE Append(recent, entry)

\* recent.push_back(entry); if recent.len() > 60 { recent.pop_front(); }
PushRecent(recent, entry) ==
    IF Len(recent) + 1 > RecentCapacity
    THEN Tail(Append(recent, entry))
    ELSE Append(recent, entry)

\* One responder over a long run.  Of ResponderStats only the window is
\* kept, which no other field feeds into; arrivals is every entry ever
\* pushed.  The n-th arrival, if answered, has an RTT of n milliseconds, so
\* that every response in the window tells its place in the run
RecentNew ==
    /\ call = NoCall
    /\ call' = [fn |-> "recent", recent |-> <<>>, arrivals |-> <<>>,
                timeouts |-> 0]
    /\ UNCHANGED <<idle, last>>

\* ResponderStats::record_response, the rolling window
RecentRecordResponse ==
    /\ call.fn = "recent"
    /\ Len(call.arrivals) < MaxArrivals
    /\ LET entry == SomeRtt(Len(call.arrivals) + 1)
       IN call' = [call EXCEPT !.recent = PushRecent(@, entry),
                               !.arrivals = Append(@, entry)]
    /\ UNCHANGED <<idle, last>>

\* ResponderStats::record_timeout
RecentRecordTimeout ==
    /\ call.fn = "recent"
    /\ Len(call.arrivals) < MaxArrivals
    /\ call.timeouts < MaxTimeouts
    /\ call' = [call EXCEPT !.recent = PushRecent(@, NoRtt),
                            !.arrivals = Append(@, NoRtt),
                            !.timeouts = @ + 1]
    /\ UNCHANGED <<idle, last>>

NextRecent ==
    \/ RecentNew
    \/ RecentRecordResponse
    \/ RecentRecordTimeout

RecentSpec == Init /\ [][NextRecent]_vars

\* ----------------------------------------- hops with their recent windows
\* Duration::MAX, which no RTT reaches; here the greatest power of two of
\* the model's integers
DurationMax == 2^30

\* the f64 field jitter is held as an exact fraction, a multiple of
\* 1/JitterScale: every update divides by 16
JitterScale == 16^MaxEvents

\* the RTTs of the responses, in nanoseconds
WindowRtts == {2000, 7500}

\* ResponderStats::new, the fields the hop methods write
NewWindowStats ==
    [sent |-> 0, received |-> 0, min_rtt |-> DurationMax, max_rtt |-> 0,
     mean_rtt |-> 0, m2 |-> 0, jitter |-> 0, last_rtt |-> NoRtt,
     recent |-> <<>>]

\* |a|
Abs(a) == IF a < 0 THEN 0 - a ELSE a

\* ResponderStats::record_response, every field
WindowStatsRecordResponse(stats, rtt) ==
    LET welford == StatsRecordResponse(
                       [NewLatencyStats EXCEPT !.received = stats.received,
                                               !.mean_rtt = stats.mean_rtt,
                                               !.m2 = stats.m2], rtt)
        diff == Abs(AsMicros(rtt) - AsMicros(stats.last_rtt[1])) * JitterScale
    IN [stats EXCEPT
           !.received = @ + 1,
           !.min_rtt = IF rtt < @ THEN rtt ELSE @,
           !.max_rtt = IF rtt > @ THEN rtt ELSE @,
           !.mean_rtt = welford.mean_rtt,
           !.m2 = welford.m2,
           !.jitter = IF stats.last_rtt = NoRtt THEN @
                      ELSE @ + (diff - @) \div 16,
           !.last_rtt = SomeRtt(rtt),
           !.recent = PushRecent(@, SomeRtt(rtt))]

\* a record_timeout that also forgets the last RTT, so that the jitter
\* starts over after a loss
WindowStatsRecordTimeoutForgets(stats) ==
    [stats EXCEPT !.recent = PushRecent(@, NoRtt), !.last_rtt = NoRtt]

\* ResponderStats::record_timeout
WindowStatsRecordTimeout(stats) ==
    [stats EXCEPT !.recent = PushRecent(@, NoRtt)]

\* Hop::record_response(ip, rtt), with p the responder update_primary
\* settles on
WindowRecordResponse(hop, ip, rtt, p) ==
    LET stats == IF ip \in DOMAIN hop.responders
                 THEN hop.responders[ip] ELSE NewWindowStats
        synced == [stats EXCEPT !.sent = hop.sent]
    IN [hop EXCEPT
           !.received = @ + 1,
           !.responders = [a \in DOMAIN hop.responders \cup {ip} |->
                              IF a = ip
                              THEN WindowStatsRecordResponse(synced, rtt)
                              ELSE hop.responders[a]],
           !.primary = p]

\* Hop::record_timeout: for stats in self.responders.values_mut()
WindowRecordTimeout(hop) ==
    [hop EXCEPT !.responders =
        [a \in DOMAIN hop.responders |->
            WindowStatsRecordTimeout(hop.responders[a])]]

\* the responders map of hop after a response of ip
WindowRespondersAfter(hop, ip, rtt) ==
    WindowRecordResponse(hop, ip, rtt, NoIp).responders

\* Session::new; calls counts the calls made on its hops
WindowNew ==
    /\ call = NoCall
    /\ call' = [fn |-> "hop_window", op |-> "new", at |-> 0,
                hops |-> [t \in Ttls |->
                    [NewHop(t) EXCEPT
                        !.responders = [a \in {} |-> NewWindowStats]]],
                calls |-> 0]
    /\ UNCHANGED <<idle, last>>

\* Hop::record_sent on hop t
WindowCallRecordSent ==
    /\ call.fn = "hop_window"
    /\ call.calls < MaxEvents
    /\ \E t \in Ttls :
          call' = [call EXCEPT !.op = "record_sent", !.at = t,
                               !.calls = @ + 1,
                               !.hops[t] = RecordSent(@)]
    /\ UNCHANGED <<idle, last>>

\* Hop::record_response on hop t
WindowCallRecordResponse ==
    /\ call.fn = "hop_window"
    /\ call.calls < MaxEvents
    /\ \E t \in Ttls, ip \in IPs, rtt \in WindowRtts :
          /\ call.hops[t].received < MaxSamples
          /\ \E p \in PrimaryChoices(
                          WindowRespondersAfter(call.hops[t], ip, rtt)) :
                call' = [call EXCEPT
                            !.op = "record_response", !.at = t,
                            !.calls = @ + 1,
                            !.hops[t] = WindowRecordResponse(@, ip, rtt, p)]
    /\ UNCHANGED <<idle, last>>

\* Hop::record_timeout on hop t
WindowCallRecordTimeout ==
    /\ call.fn = "hop_window"
    /\ call.calls < MaxEvents
    /\ \E t \in Ttls :
          call' = [call EXCEPT !.op = "record_timeout", !.at = t,
                               !.calls = @ + 1,
                               !.hops[t] = WindowRecordTimeout(@)]
    /\ UNCHANGED <<idle, last>>

NextWindow ==
    \/ WindowNew
    \/ WindowCallRecordSent
    \/ WindowCallRecordResponse
    \/ WindowCallRecordTimeout

WindowSpec == Init /\ [][NextWindow]_vars

\* ------------------------------------------------------------ seq wraps
\* A session without count limit that has run for LateSeq sweeps, so that
\* seq stands two sweeps before its wrap.  Either nothing but a router at
\* hop 1 ever answered and every sweep probed every TTL, or the target
\* answered the first probe of hop 1 and the deeper TTLs were probed in the
\* first sweep only.  All notifications were taken and all entries reaped.
LateSeq == SeqModulus - 2

\* probes sent per TTL before the late sweeps
LateWire(t) == IF complete /\ t > 1 THEN 1 ELSE LateSeq

LateSession ==
    /\ count = <<>>
    /\ epc = "select"
    /\ ttl = 1
    /\ seq = LateSeq
    /\ fails = 0
    /\ complete \in BOOLEAN
    /\ wire = [t \in Ttls |-> LateWire(t)]
    /\ hops = [t \in Ttls |->
                 IF t = 1
                 THEN [RespondedBy(IF complete THEN Target ELSE Router)
                          EXCEPT !.sent = LateWire(t)]
                 ELSE [NewHops[t] EXCEPT !.sent = LateWire(t)]]
    /\ total_sent = SumTo(wire, MaxTtl)
    /\ session_total_sent = total_sent
    /\ paused = FALSE
    /\ pending = {}
    /\ probe_tx = <<>>
    /\ rx_open = TRUE
    /\ reaper_on = TRUE
    /\ cancel = FALSE
    /\ ui_paused = FALSE
    /\ ui_pc = "run"
    /\ dns_pc = "select"
    /\ dns_batch = <<>>
    /\ dns_cache = [ip \in {} |-> None]
    /\ ix_pc = "select"
    /\ ix_batch = <<>>
    /\ ix_loaded = FALSE
    /\ IxLookupNew
    /\ ix_disk = NoFile
    /\ call = NoCall
    /\ last = "init"

\* sweeps completed since the late session began
LateSweeps == (seq + SeqModulus - LateSeq) % SeqModulus

\* select!: the tick branch of the late session: MaxTicks more sweeps
EngineTickSweepLate ==
    /\ epc = "select"
    /\ ~paused
    /\ ~CountReached
    /\ LateSweeps < MaxTicks
    /\ epc' = "sweep"
    /\ ttl' = 1
    /\ last' = "tick_sweep"
    /\ UNCHANGED <<call, ixStore, workerVars, count, seq, total_sent, fails,
                   wire, sessionVars, pending, probe_tx, rx_open, reaper_on,
                   cancel, uiVars>>

NextLate ==
    \/ EngineTickPaused
    \/ EngineTickSweepLate
    \/ EngineStep
    \/ RecvNotify
    \/ TogglePaused

LateSpec == LateSession /\ [][NextLate]_vars

\* ---------------------------------------------- the workers on a long path
\* A session whose path has MaxPath responding hops, each with one
\* responder of its own; the address of the responder of hop h is written h.
\* With one responder per hop the order of ips_to_lookup is the order of the
\* hops, a Vec.
PathAddrs == 1..MaxPath

\* the addresses of PathAddrs outside the set done, in hop order
RECURSIVE PathNeedy(_, _)
PathNeedy(done, h) ==
    IF h = 0 THEN <<>>
    ELSE IF h \in done THEN PathNeedy(done, h - 1)
    ELSE Append(PathNeedy(done, h - 1), h)

\* the addresses of sequence q
Range(q) == {q[i] : i \in DOMAIN q}

\* ---- run_ix_worker on the path, the prefix data loaded
\* the responders are known; inside are the addresses that lie in a loaded
\* IX prefix, ix the addresses whose stats.ix is set
PathIxNew ==
    /\ call = NoCall
    /\ \E inside \in SUBSET PathAddrs :
          call' = [fn |-> "ix_path", pc |-> "select", inside |-> inside,
                   ix |-> {}, batch |-> <<>>, op |-> "new"]
    /\ UNCHANGED <<idle, last>>

\* the tick branch: no address without ix: continue
PathIxTickIdle ==
    /\ call.fn = "ix_path"
    /\ call.pc = "select"
    /\ PathNeedy(call.ix, MaxPath) = <<>>
    /\ call' = [call EXCEPT !.op = "tick_idle"]
    /\ UNCHANGED <<idle, last>>

\* the tick branch: the first MAX_CONCURRENT_LOOKUPS addresses without ix
\* are looked up side by side
PathIxTick ==
    /\ call.fn = "ix_path"
    /\ call.pc = "select"
    /\ PathNeedy(call.ix, MaxPath) # <<>>
    /\ call' = [call EXCEPT
                   !.pc = "join", !.op = "tick",
                   !.batch = Take(PathNeedy(call.ix, MaxPath),
                                  MAX_CONCURRENT_LOOKUPS)]
    /\ UNCHANGED <<idle, last>>

\* join_all returns: lookup finds an exchange for the addresses inside a
\* prefix and None for the others; every Some is written to stats.ix
PathIxJoinDone ==
    /\ call.fn = "ix_path"
    /\ call.pc = "join"
    /\ call' = [call EXCEPT
                   !.pc = "select", !.op = "join_done", !.batch = <<>>,
                   !.ix = @ \cup (Range(call.batch) \cap call.inside)]
    /\ UNCHANGED <<idle, last>>

NextPathIx ==
    \/ PathIxNew
    \/ PathIxTickIdle
    \/ PathIxTick
    \/ PathIxJoinDone

\* The interval ticks every 500 ms and the lookups return: the worker is
\* never held up
PathIxSpec == Init /\ [][NextPathIx]_vars /\ WF_vars(NextPathIx)

\* ---- run_dns_worker on the path
\* the responders are known; resolvable are the addresses the resolver has
\* a name for, named the addresses whose stats.hostname is set, cache the
\* addresses with an entry in the cache of the DnsLookup
PathDnsNew ==
    /\ call = NoCall
    /\ \E resolvable \in SUBSET PathAddrs :
          call' = [fn |-> "dns_path", pc |-> "select",
                   resolvable |-> resolvable, named |-> {}, cache |-> {},
                   batch |-> <<>>, op |-> "new"]
    /\ UNCHANGED <<idle, last>>

\* the tick branch: the addresses without hostname are collected and the
\* first 10 of them kept
PathDnsTick ==
    /\ call.fn = "dns_path"
    /\ call.pc = "select"
    /\ call' = [call EXCEPT
                   !.pc = "batch", !.op = "tick",
                   !.batch = Take(PathNeedy(call.named, MaxPath), 10)]
    /\ UNCHANGED <<idle, last>>

\* one iteration of the for loop: reverse_lookup answers from a fresh cache
\* entry or asks the resolver, which has the name of a resolvable address
\* and nothing for the others; the result is cached and a name is written
\* to stats.hostname
PathDnsLookup ==
    /\ call.fn = "dns_path"
    /\ call.pc = "batch"
    /\ call.batch # <<>>
    /\ LET ip == Head(call.batch)
       IN \E fresh \in {FALSE, (ip \in call.cache)} :
             call' = [call EXCEPT
                         !.op = IF fresh THEN "cached" ELSE "resolved",
                         !.batch = Tail(@),
                         !.cache = @ \cup {ip},
                         !.named = IF ip \in call.resolvable
                                   THEN @ \cup {ip} ELSE @]
    /\ UNCHANGED <<idle, last>>

\* the for loop is through with the batch
PathDnsBatchEnd ==
    /\ call.fn = "dns_path"
    /\ call.pc = "batch"
    /\ call.batch = <<>>
    /\ call' = [call EXCEPT !.pc = "select", !.op = "batch_end"]
    /\ UNCHANGED <<idle, last>>

NextPathDns ==
    \/ PathDnsNew
    \/ PathDnsTick
    \/ PathDnsLookup
    \/ PathDnsBatchEnd

\* The interval ticks every 500 ms and the resolver answers: the worker is
\* never held up
PathDnsSpec == Init /\ [][NextPathDns]_vars /\ WF_vars(NextPathDns)

\* ------------------------------------------------- hop methods on their own
\* Hop::record_sent and Hop::record_response called in any order on the
\* hops of a fresh session, as a caller of state/session.rs may do; nothing
\* else runs
CallRecordSent ==
    /\ \E t \in Ttls :
          /\ hops[t].sent < MaxCalls
          /\ hops' = [hops EXCEPT ![t] = RecordSent(@)]
    /\ last' = "call_record_sent"
    /\ UNCHANGED <<call, ixStore, workerVars, count, engineVars, complete, session_total_sent,
                   paused, pending, probe_tx, rx_open, reaper_on, cancel,
                   uiVars>>

CallRecordResponse ==
    /\ \E t \in Ttls, ip \in IPs :
          /\ hops[t].received < MaxCalls
          /\ \E p \in PrimaryChoices(RespondersAfter(hops[t], ip)) :
                hops' = [hops EXCEPT ![t] = RecordResponse(@, ip, p)]
    /\ last' = "call_record_response"
    /\ UNCHANGED <<call, ixStore, workerVars, count, engineVars, complete, session_total_sent,
                   paused, pending, probe_tx, rx_open, reaper_on, cancel,
                   uiVars>>

NextHop ==
    \/ CallRecordSent
    \/ CallRecordResponse

HopSpec == Init /\ [][NextHop]_vars

TypeOK ==
    /\ count \in CountOpts
    /\ epc \in {"select", "sweep", "record", "notify", "done"}
    /\ ttl \in Ttls
    /\ seq \in 0..MaxTicks
    /\ pending \subseteq (Ttls \X Seqs)
    /\ Len(probe_tx) <= ChanCap

\* ------------------------------------------------------------------ claims
\* packets handed to the kernel over the whole session
KernelSends == SumTo(wire, MaxTtl)

\* the ProbeSent notification of probe id is in the channel
Notified(id) == \E i \in 1..Len(probe_tx) : probe_tx[i] = id

\* the operations of ProbeEngine::run
EngineOps == {"engine_cancelled", "tick_paused", "tick_count_reached",
              "tick_sweep", "skip_ttl", "set_ttl_failed", "send_failed",
              "send", "record_sent", "notify"}

C2_InsertBeforeSend ==
    [][wire' # wire => (ProbeId(ttl, seq) \in pending \/ Notified(ProbeId(ttl, seq)))]_vars

\* C4: a parsed response that finds no pending entry changes no hop, no
\* responder, not the complete flag and not the pending table
C4_DroppedResponseFrame ==
    [][last' = "response_dropped"
        => UNCHANGED <<hops, complete, session_total_sent, pending>>]_vars

\* C4 witness: a response was dropped after the hop it names had already
\* counted one (a duplicate or late reply)
C4_Witness ==
    /\ last = "response_dropped"
    /\ \E t \in Ttls : hops[t].received > 0

\* C5: with count set, the engine hands at most count * max_ttl packets to
\* the kernel
C5_TotalWithinCount == count # <<>> => KernelSends <= count[1] * MaxTtl

\* C6: with count set, no hop has sent > count
C6_PerHopCap == count # <<>> => \A t \in Ttls : hops[t].sent <= count[1]

\* C7: the engine is never held up by the channel: whenever it is about to
\* notify, the step that leaves the notification behind can be taken
C7_NotifyNeverBlocks == epc = "notify" => ENABLED EngineNotify

\* C9: while the UI shows paused, the engine starts no TTL sweep
C9_PauseKeyStopsEngine == [][ui_paused => last' # "tick_sweep"]_vars

\* C10: a step of the engine taken at a tick while session.paused holds
\* starts no sweep and leaves sent, total_sent, the pending table, the
\* channel and seq as they were
C10_PausedTickFrame ==
    [][(paused /\ epc = "select" /\ last' \in EngineOps)
        => /\ epc' \in {"select", "done"}
           /\ UNCHANGED <<wire, hops, session_total_sent, total_sent,
                          pending, probe_tx, seq>>]_vars

\* C10 witness: a tick was skipped for pause in the middle of a session
C10_Witness ==
    /\ last = "tick_paused"
    /\ session_total_sent > 0
    /\ pending # {}

\* C8: once the token has fired, the engine, the RDNS worker and the IX
\* worker all leave their loops
C8_AllLoopsExit ==
    cancel ~> (epc = "done" /\ dns_pc = "done" /\ ix_pc = "done")

\* C8 witness: all three loops have ended after a cancellation
C8_Witness ==
    /\ cancel
    /\ epc = "done"
    /\ dns_pc = "done"
    /\ ix_pc = "done"
    /\ \E t \in Ttls : hops[t].sent > 1

C11_CompleteOnTargetEchoReply ==
    [][/\ (last' = ResponseOp(Target, "EchoReply") => complete')
       /\ (last' # ResponseOp(Target, "EchoReply") => complete' = complete)]_vars

\* C11 witness: the target's EchoReply has just completed a session in which
\* a router had answered before
C11_Witness ==
    /\ last = ResponseOp(Target, "EchoReply")
    /\ complete
    /\ \E t \in Ttls : Router \in DOMAIN hops[t].responders

\* the sum of responders[ip].received over the responders of a hop
RECURSIVE SumReceived(_, _)
SumReceived(responders, S) ==
    IF S = {} THEN 0
    ELSE LET ip == CHOOSE a \in S : TRUE
         IN responders[ip].received + SumReceived(responders, S \ {ip})

\* C12: after any sequence of record_response calls the primary of a hop is
\* a responder whose received is greatest among the hop's responders, and it
\* is absent exactly when the hop has no responders
C12_PrimaryIsMostSeen ==
    \A t \in Ttls :
        /\ (hops[t].primary = NoIp) <=> (DOMAIN hops[t].responders = {})
        /\ hops[t].primary # NoIp =>
              /\ hops[t].primary \in DOMAIN hops[t].responders
              /\ \A ip \in DOMAIN hops[t].responders :
                    hops[t].responders[ip].received
                        <= hops[t].responders[hops[t].primary].received

\* C12 witness: a hop has two responders, the later one has overtaken the
\* first and is the primary
C12_Witness ==
    /\ last = "call_record_response"
    /\ \E t \in Ttls :
          /\ DOMAIN hops[t].responders = IPs
          /\ hops[t].responders[Router].received = 1
          /\ hops[t].responders[Target].received = 2
          /\ hops[t].primary = Target

\* C13: after any sequence of record_sent and record_response calls every
\* hop has received = the sum of received over its responders
C13_ReceivedIsSum ==
    \A t \in Ttls :
        hops[t].received
            = SumReceived(hops[t].responders, DOMAIN hops[t].responders)

\* C13 witness: a hop has counted three responses of two responders, with
\* probes recorded in between
C13_Witness ==
    \E t \in Ttls :
        /\ hops[t].received = 3
        /\ hops[t].sent = 2
        /\ DOMAIN hops[t].responders = IPs

\* C14: no step of the engine, the updater, the reaper or an enrichment
\* worker lowers the sent or the received of a hop
C14_CountersNondecreasing ==
    [][\A t \in Ttls : /\ hops'[t].sent >= hops[t].sent
                       /\ hops'[t].received >= hops[t].received]_vars

\* C14 witness: a worker has written a hostname into a hop that has been
\* probed twice and has answered
C14_Witness ==
    /\ last = "dns_query_done"
    /\ \E t \in Ttls :
          /\ hops[t].sent = 2
          /\ hops[t].received > 0
          /\ \E ip \in DOMAIN hops[t].responders :
                hops[t].responders[ip].hostname # None

\* the call under examination is one of parse_icmp_response
Parsing == call.fn = "parse_icmp_response"

\* where the headers of the datagram of the call lie: the ICMP header behind
\* the outer IPv4 header, the embedded ICMP header behind the embedded one
IcmpAt == HeaderLength(call.data) * 4
EmbeddedIpAt == IcmpAt + 8
EmbeddedIcmpAt == EmbeddedIpAt + (At(call.data, EmbeddedIpAt) % 16) * 4

\* the identifier a parsed response was recovered from
RecoveredIdentifier ==
    LET at == IF At(call.data, IcmpAt) = 0 THEN IcmpAt ELSE EmbeddedIcmpAt
    IN FromBeBytes(At(call.data, at + 4), At(call.data, at + 5))

\* C15: the correlator yields a parsed response only for a datagram whose
\* identifier, in bytes 4..6 of the ICMP header of an EchoReply and in the
\* embedded ICMP header of a TimeExceeded or DestinationUnreachable, is the
\* session identifier
C15_ForeignIdentifierRejected ==
    (Parsing /\ call.result.kind = "some")
        => RecoveredIdentifier = call.our_identifier

\* C15 witness: a complete TimeExceeded that embeds an echo request of
\* another identifier was rejected, while its own unused bytes 4..6 carry the
\* session identifier
C15_Witness ==
    /\ Parsing
    /\ call.result = Rejected
    /\ Len(call.data) = MaxPacketLen
    /\ At(call.data, IcmpAt) = 11
    /\ FromBeBytes(At(call.data, IcmpAt + 4), At(call.data, IcmpAt + 5))
          = call.our_identifier
    /\ EmbeddedIcmpAt + 8 <= Len(call.data)
    /\ At(call.data, EmbeddedIcmpAt) = 8
    /\ FromBeBytes(At(call.data, EmbeddedIcmpAt + 4),
                   At(call.data, EmbeddedIcmpAt + 5)) = call.our_identifier + 1

\* C16: parse_icmp_response returns a parsed response or a rejection for
\* every datagram, whatever its length and header lengths; it never indexes
\* or slices past the end of the data
C16_ParseNeverFaults == Parsing => call.result.kind \in {"some", "none"}

\* C16 witness: an error message was rejected because its embedded header
\* claims options that push the embedded ICMP header past the end of the
\* data
C16_Witness ==
    /\ Parsing
    /\ call.result = Rejected
    /\ Len(call.data) >= 20
    /\ Len(call.data) >= IcmpAt + 8 + 20 + 8
    /\ At(call.data, IcmpAt) \in {3, 11}
    /\ Len(call.data) < EmbeddedIcmpAt + 8

\* C17: for every ttl and seq of a u8, decoding the encoded ProbeId gives
\* the ProbeId back, and the encoding is a u16
C17_ProbeIdRoundTrip ==
    call.fn = "probe_id_round_trip"
        => /\ call.decoded = call.id
           /\ call.sequence \in 0..65535

\* C17 witness: the largest ProbeId went through the round trip and used
\* all sixteen bits
C17_Witness ==
    /\ call.fn = "probe_id_round_trip"
    /\ call.id = ProbeId(255, 255)
    /\ call.sequence = 65535
    /\ call.decoded = ProbeId(255, 255)

\* C18: a cache is reported fresh exactly when now - fetched_at is less than
\* 24 hours
C18_FreshIffYoungerThanDay ==
    call.fn = "is_expired"
        => (call.result = "fresh"
              <=> call.now - call.fetched_at < MAX_AGE_SECS)

\* task k has entered lookup in this step / has come to the end of lookup
LookupEntered(k) == lk[k].pc = "idle" /\ lk'[k].pc # "idle"
LookupEnded(k) == lk[k].pc # "done" /\ lk'[k].pc = "done"

\* the cache file is readable and is_expired does not call it expired
DiskFresh == LoadCacheOk(ix_disk) /\ ~IsExpired(clock, ix_disk.fetched_at)

\* C19: a lookup that has to load uses a fresh cache file without a fetch
\* and fetches otherwise; a failed fetch falls back to a readable cache file
\* of any age, which then counts as loaded; without one the lookup ends
\* with None, the prefix table, loaded and the per-IP cache stay as they
\* were, and while nothing is loaded nothing is cached, so that the next
\* lookup loads again
C19_LoadPolicy ==
    /\ [](~ix_loaded => (ix_prefixes = <<>> /\ DOMAIN ip_cache = {}))
    /\ [][\A k \in LookupTasks :
            /\ (LookupEntered(k) /\ ~ix_loaded /\ ~IpCacheHit(lk'[k].ip))
                  => IF DiskFresh
                     THEN /\ lk'[k].pc = "done"
                          /\ last' # "ix_fetch"
                          /\ ix_loaded'
                          /\ ix_prefixes' = PopulateFromCache(ix_disk.prefixes)
                          /\ ix_disk' = ix_disk
                     ELSE /\ lk'[k].pc = "fetch"
                          /\ UNCHANGED <<ix_loaded, ix_prefixes, ip_cache>>
            /\ (lk[k].pc = "fetch" /\ LookupEnded(k)
                  /\ last' = "ix_fetch_failed")
                  => IF LoadCacheOk(ix_disk)
                     THEN /\ ix_loaded'
                          /\ ix_prefixes' = PopulateFromCache(ix_disk.prefixes)
                     ELSE /\ lk'[k].result = None
                          /\ UNCHANGED <<ix_loaded, ix_prefixes, ip_cache>>]_vars

\* C19 witness: the fetch has failed and memory holds the prefixes of a cache
\* file that is_expired calls expired
C19_Witness ==
    /\ last = "ix_fetch_failed"
    /\ ix_loaded
    /\ ix_prefixes = PopulateFromCache(CachedPrefixes)
    /\ IsExpired(clock, ix_disk.fetched_at)

\* C20: a lookup that scans returns the info of a loaded prefix that
\* contains the address, or None when no loaded prefix contains it (with
\* the provider's table: the exchange for 206.223.115.100, None for
\* 206.223.116.100), and leaves that result in the per-IP cache; a lookup
\* of an address whose cache entry is younger than an hour returns the
\* cached result in one step and touches neither the prefix table nor
\* loaded nor the cache file
C20_LookupResult ==
    [][\A k \in LookupTasks :
        LET ip == lk'[k].ip
            r == lk'[k].result
            hits == {i \in 1..Len(ix_prefixes') :
                        Contains(ix_prefixes'[i].network, ip)}
        IN /\ (LookupEnded(k) /\ lk'[k].via = "scan")
                 => /\ r # None => \E i \in hits : ix_prefixes'[i].info = r
                    /\ r = None => hits = {}
                    /\ ix_prefixes' = PopulateFromCache(ProviderPrefixes)
                          => r = (IF ip = Inside THEN "LINX" ELSE None)
                    /\ ip_cache'[ip] = [result |-> r, time |-> clock]
           /\ (LookupEntered(k) /\ IpCacheHit(ip))
                 => /\ lk'[k].pc = "done"
                    /\ lk'[k].via = "ip_cache"
                    /\ r = ip_cache[ip].result
                    /\ UNCHANGED <<ix_prefixes, ix_loaded, ip_cache,
                                   ix_disk>>]_vars

\* C20 witness: half an hour after 206.223.115.100 was found in the
\* provider's table a second lookup got the exchange from the per-IP cache
C20_Witness ==
    \E k \in LookupTasks :
        /\ lk[k] = [pc |-> "done", ip |-> Inside, result |-> "LINX",
                    via |-> "ip_cache"]
        /\ clock = ip_cache[Inside].time + 1800

\* the operations of run_dns_worker
DnsOps == {"dns_cancelled", "dns_tick", "dns_batch_end", "dns_cached",
           "dns_query", "dns_query_done"}

\* every responder of the session has a hostname
AllNamed ==
    \A t \in Ttls : \A ip \in DOMAIN hops[t].responders :
        hops[t].responders[ip].hostname # None

\* C21: a tick of the RDNS worker that finds a hostname on every responder
\* collects no address and leaves the session alone, and the worker's only
\* step on an empty batch is to end it, without a lookup (cached or
\* queried) and without a change to the session or the DNS cache
C21_RdnsIdempotent ==
    /\ [][(last' = "dns_tick" /\ AllNamed)
            => (dns_batch' = <<>> /\ UNCHANGED <<sessionVars, dns_cache>>)]_vars
    /\ [][(dns_pc = "batch" /\ dns_batch = <<>> /\ last' \in DnsOps)
            => (last' = "dns_batch_end"
                /\ UNCHANGED <<sessionVars, dns_cache>>)]_vars

\* C21 witness: a tick has just found nothing to do in a session whose hop 1
\* has a responder, named on an earlier tick
C21_Witness ==
    /\ last = "dns_tick"
    /\ dns_pc = "batch"
    /\ dns_batch = <<>>
    /\ AllNamed
    /\ DOMAIN hops[1].responders # {}

\* the sum of the samples' microseconds and of their squares
RECURSIVE SumMicros(_)
SumMicros(q) == IF q = <<>> THEN 0 ELSE AsMicros(Head(q)) + SumMicros(Tail(q))

RECURSIVE SumSquares(_)
SumSquares(q) ==
    IF q = <<>> THEN 0
    ELSE AsMicros(Head(q)) * AsMicros(Head(q)) + SumSquares(Tail(q))

RECURSIVE SumNanos(_)
SumNanos(q) == IF q = <<>> THEN 0 ELSE Head(q) + SumNanos(Tail(q))

\* C22: after any sequence of samples, received is their number n, mean_rtt
\* is the arithmetic mean of their microseconds (and so less than one
\* microsecond below the mean of the durations), m2 / n is the population
\* variance (sum of squares / n - mean^2), and stddev is zero for fewer than
\* two samples and the whole microseconds of the root of m2 / n otherwise
C22_WelfordMeanVariance ==
    call.fn = "responder_stats" =>
        LET n == call.received
            sum == SumMicros(call.samples)
            v == call.m2 \div (Scale * Scale * n)
        IN /\ n = Len(call.samples)
           /\ call.exact
           /\ call.mean_rtt * n = Scale * sum
           /\ 1000 * sum <= SumNanos(call.samples)
           /\ SumNanos(call.samples) < 1000 * (sum + n) \/ n = 0
           /\ call.m2 * n = Scale * Scale * (n * SumSquares(call.samples) - sum * sum)
           /\ n < 2 => StdDev(call) = 0
           /\ n >= 2 => /\ StdDev(call) * StdDev(call) <= v
                         /\ v < (StdDev(call) + 1) * (StdDev(call) + 1)

\* C22 witness: three different samples, the largest first, one of them with
\* a fraction of a microsecond; their mean is 19 and their deviation 22
\* microseconds
C22_Witness ==
    /\ call.fn = "responder_stats"
    /\ call.samples = <<50000, 0, 7500>>
    /\ call.mean_rtt = 19 * Scale
    /\ StdDev(call) = 22

\* C23: in every reachable state the hop sequence has exactly max_ttl
\* entries and its i-th entry (counted from 1) has ttl = i, and no step
\* changes the length of the sequence or the ttl of an entry
C23_HopsShape ==
    /\ [](/\ DOMAIN hops = 1..MaxTtl
          /\ \A i \in 1..MaxTtl : hops[i].ttl = i)
    /\ [][/\ DOMAIN hops' = DOMAIN hops
          /\ \A i \in DOMAIN hops : hops'[i].ttl = hops[i].ttl]_vars

\* C23 witness: every writer has been at the hops: the engine has recorded
\* the probe of the deepest hop, the target has answered there, and both
\* workers have written their field at hop 1
C23_Witness ==
    /\ hops[MaxTtl].sent = MaxTicks
    /\ Target \in DOMAIN hops[MaxTtl].responders
    /\ hops[1].responders[Router].hostname # None
    /\ hops[1].responders[Router].ix # None

\* the engine's ways of going through one TTL of a sweep with a probe
ProbeOps == {"send", "set_ttl_failed", "send_failed"}

OutOfTicks == epc = "select" /\ seq = MaxTicks /\ ~CountReached

C26_FailureSkipsOneTtl ==
    [][last' \in {"set_ttl_failed", "send_failed"}
        => /\ epc = "sweep"
           /\ UNCHANGED <<hops, session_total_sent, total_sent, pending,
                          probe_tx, wire, complete, cancel>>
           /\ ttl < MaxTtl => (epc' = "sweep" /\ ttl' = ttl + 1 /\ seq' = seq)
           /\ ttl = MaxTtl => (epc' = "select" /\ seq' = (seq + 1) % SeqModulus)]_vars

\* C26 witness: the probe of hop 1 failed and left no trace, and the probe
\* of the next hop of the same sweep is out
C26_Witness ==
    /\ last = "send"
    /\ ttl = 2
    /\ seq = 0
    /\ fails = 1
    /\ wire[1] = 0
    /\ hops[1].sent = 0
    /\ session_total_sent = 0
    /\ total_sent = 0
    /\ pending = {}
    /\ probe_tx = <<>>
    /\ wire[2] = 1

\* C27: when two responders of a hop share the greatest received count, the
\* primary is the one seen first at that hop; so a responder that answers
\* for the first time and only draws level with one seen before it does not
\* become the primary
C27_TieGoesToFirstSeen ==
    [][\A t \in Ttls :
         \A ip \in DOMAIN hops'[t].responders \ DOMAIN hops[t].responders :
            (\E first \in DOMAIN hops[t].responders :
                hops'[t].responders[first].received
                    >= hops'[t].responders[ip].received)
                => hops'[t].primary # ip]_vars

\* the instruction task is at, and whether the task is suspended there
AtAwait(task) ==
    /\ call.pc[task] # 0
    /\ Program(task)[call.pc[task]].op = "await"

\* C28: a task that is at an await (a timer tick, the channel send, the DNS
\* query, the provider fetch) or has left its loop holds no guard of the
\* session lock, the sessions map or a cache lock
C28_NoGuardAcrossAwait ==
    call.fn = "locks" =>
        \A task \in Tasks :
            (AtAwait(task) \/ call.pc[task] = 0) => call.held[task] = {}

\* C28 witness: all three tasks are suspended in the middle of their work,
\* the engine in the channel send, the RDNS worker in the query and the IX
\* worker in the provider fetch, each past the guards it took on the way
C28_Witness ==
    /\ call.fn = "locks"
    /\ call.pc["engine"] = 11
    /\ call.pc["dns"] = 7
    /\ call.pc["ix"] = 16
    /\ \A task \in Tasks : AtAwait(task) /\ call.held[task] = {}

\* the cache file is there and carries another version than this build's
DiskOtherVersion == ix_disk.exists /\ ix_disk.version # VERSION

\* C29: while the cache file has another version, a step that fills the
\* prefix table or marks the data loaded is the end of a successful
\* provider fetch and the table is the provider's: the file is used neither
\* as a fresh cache at the start of a lookup nor as the fallback after a
\* failed fetch, however new it is
C29_VersionMismatchIsMiss ==
    [][(DiskOtherVersion /\ (ix_prefixes' # ix_prefixes \/ ix_loaded' # ix_loaded))
        => /\ last' = "ix_fetch_ok"
           /\ ix_prefixes' = PopulateFromCache(ProviderPrefixes)]_vars

\* C29 witness: a lookup found a file of another version, new by its time
\* stamp, went to the provider, and when the fetch failed ended with None
\* and nothing loaded
C29_Witness ==
    /\ last = "ix_fetch_failed"
    /\ DiskOtherVersion
    /\ ~IsExpired(clock, ix_disk.fetched_at)
    /\ ~ix_loaded
    /\ ix_prefixes = <<>>
    /\ \E k \in LookupTasks : lk[k].pc = "done" /\ lk[k].via = "load_failed"

\* the positive results of the tick for address a
PositiveResults(a) ==
    {call.results[i][2] : i \in {j \in 1..Len(call.results) :
                                    /\ call.results[j][1] = a
                                    /\ call.results[j][2] # None}}

\* C30: after a tick of the IX worker every responder entry of an address
\* with a positive result, in every hop of every session, carries that
\* result as its ix; the entries of an address without a positive result
\* keep the ix they had; and nothing else in any session has changed
C30_IxWrittenEverywhere ==
    call.fn = "ix_worker_tick" =>
        \A sid \in SessionIds : \A t \in Ttls :
            LET before == call.sessions[sid][t]
                after == call.after[sid][t]
            IN /\ DOMAIN after.responders = DOMAIN before.responders
               /\ after = [before EXCEPT !.responders = after.responders]
               /\ \A a \in DOMAIN before.responders :
                     /\ after.responders[a]
                           = [before.responders[a] EXCEPT
                                 !.ix = after.responders[a].ix]
                     /\ PositiveResults(a) # {}
                           => after.responders[a].ix \in PositiveResults(a)
                     /\ PositiveResults(a) = {}
                           => after.responders[a].ix = before.responders[a].ix

\* C30 witness: the router got a positive result and the target none; the
\* router's entries at hop 1 and at the deepest hop of session 1 and at
\* hop 1 of session 2 all carry the exchange, the target's entries none
C30_Witness ==
    /\ call.fn = "ix_worker_tick"
    /\ PositiveResults(Router) = {"LINX"}
    /\ DOMAIN call.sessions[1][MaxTtl].responders = IPs
    /\ call.sessions[1][1].responders[Router].ix = None
    /\ call.after[1][1].responders[Router].ix = "LINX"
    /\ call.after[1][MaxTtl].responders[Router].ix = "LINX"
    /\ call.after[1][MaxTtl].responders[Target].ix = None
    /\ DOMAIN call.sessions[2][1].responders = {Router}
    /\ call.sessions[2][1].responders[Router].ix = None
    /\ call.after[2][1].responders[Router].ix = "LINX"
    /\ call.after[2][MaxTtl].responders[Target].ix = None

\* the resolver queries issued for address ip, as indices into issued
QueriesFor(ip) == {i \in 1..Len(call.issued) : call.issued[i].ip = ip}

\* C31: two resolver queries for one address are at least an hour apart,
\* and a call answered from the cache returns what the latest resolver
\* query for that address was answered with, be it a name or nothing
C31_CacheSuppressesQueries ==
    call.fn = "reverse_lookup" =>
        /\ \A i, j \in 1..Len(call.issued) :
              (i < j /\ call.issued[i].ip = call.issued[j].ip) =>
                  call.issued[j].at - call.issued[i].at >= CacheTtl
        /\ (call.pc = "idle" /\ call.via = "cache") =>
              /\ QueriesFor(call.ip) # {}
              /\ LET latest == CHOOSE i \in QueriesFor(call.ip) :
                                   \A j \in QueriesFor(call.ip) : j <= i
                 IN /\ call.result = call.issued[latest].answer
                    /\ call.now - call.issued[latest].at >= 0

\* C31 witness: the resolver had no name for the router; one second short
\* of an hour later the router is looked up again and the negative result
\* comes from the cache, with no second query
C31_Witness ==
    /\ call.fn = "reverse_lookup"
    /\ call.pc = "idle"
    /\ call.via = "cache"
    /\ call.ip = Router
    /\ call.result = None
    /\ call.issued = <<[ip |-> Router, at |-> 0, answer |-> None]>>
    /\ call.now = CacheTtl - 1

\* the last n entries of q, or all of q if it has fewer
LastOf(q, n) == SubSeq(q, IF Len(q) > n THEN Len(q) - n + 1 ELSE 1, Len(q))

\* C32: after any sequence of record_response and record_timeout calls the
\* recent window holds at most 60 entries, and they are the latest entries
\* pushed, oldest first
C32_RecentIsLatestSixty ==
    call.fn = "recent" =>
        /\ Len(call.recent) <= RecentCapacity
        /\ call.recent = LastOf(call.arrivals, RecentCapacity)

\* C32 witness: 62 entries have arrived, a timeout among the first two, so
\* the window has dropped a response or a timeout from its front and starts
\* at the third arrival
C32_Witness ==
    /\ call.fn = "recent"
    /\ Len(call.arrivals) = RecentCapacity + 2
    /\ NoRtt \in {call.arrivals[1], call.arrivals[2]}
    /\ Len(call.recent) = RecentCapacity
    /\ Head(call.recent) = call.arrivals[3]
    /\ call.recent[RecentCapacity] = call.arrivals[RecentCapacity + 2]

\* record_timeout has just run on a hop
TimedOut == call.fn = "hop_window" /\ call'.op = "record_timeout"

\* C33: Hop::record_timeout pushes one timeout marker onto the recent
\* window of every known responder of its hop and leaves sent, received,
\* primary, the set of responders, every other field of every responder
\* and every other hop as they were
C33_TimeoutFrame ==
    [][TimedOut =>
        LET t == call'.at
            before == call.hops[t]
            after == call'.hops[t]
        IN /\ \A u \in Ttls \ {t} : call'.hops[u] = call.hops[u]
           /\ after.sent = before.sent
           /\ after.received = before.received
           /\ after.primary = before.primary
           /\ DOMAIN after.responders = DOMAIN before.responders
           /\ \A a \in DOMAIN before.responders :
                 /\ after.responders[a].recent =
                        PushRecent(before.responders[a].recent, NoRtt)
                 /\ [after.responders[a] EXCEPT !.recent = <<>>] =
                        [before.responders[a] EXCEPT !.recent = <<>>]]_vars

\* C33 witness: hop 1 has heard from both addresses, the router twice; a
\* timeout has just been recorded on it, and both windows end with the
\* marker while the router's jitter and last RTT stand
C33_Witness ==
    /\ call.fn = "hop_window"
    /\ call.op = "record_timeout"
    /\ call.at = 1
    /\ DOMAIN call.hops[1].responders = IPs
    /\ call.hops[1].responders[Router].received = 2
    /\ call.hops[1].responders[Router].jitter > 0
    /\ call.hops[1].responders[Router].last_rtt # NoRtt
    /\ \A a \in IPs :
          LET recent == call.hops[1].responders[a].recent
          IN recent # <<>> /\ recent[Len(recent)] = NoRtt

\* the probe ids in the channel or in the pending table
IdsAbout == pending \cup {probe_tx[i] : i \in 1..Len(probe_tx)}

\* the sweep, counted from the start of the late session, whose seq an id
\* carries
SweepOf(id) == (id[2] + SeqModulus - LateSeq) % SeqModulus

\* C34: within one tick at most one echo request is sent per TTL, every
\* probe of the tick carries the tick's seq, and seq changes only at the
\* end of a completed sweep, by one modulo 256, so from 255 to 0
C34_OneSeqPerTick ==
    /\ [](\A t \in Ttls :
             wire[t] <= LateWire(t) + LateSweeps
                        + (IF /\ epc # "select"
                              /\ \/ t < ttl
                                 \/ t = ttl /\ epc \in {"record", "notify"}
                           THEN 1 ELSE 0))
    /\ [](\A id \in IdsAbout :
             /\ SweepOf(id) <= LateSweeps
             /\ SweepOf(id) = LateSweeps => epc # "select" /\ id[1] < ttl)
    /\ [][/\ wire' # wire =>
                /\ epc = "sweep"
                /\ seq' = seq
                /\ wire' = [wire EXCEPT ![ttl] = @ + 1]
          /\ seq' # seq =>
                /\ epc # "select" /\ ttl = MaxTtl /\ epc' = "select"
                /\ seq' = (seq + 1) % SeqModulus
          /\ (epc # "select" /\ epc' = "select") =>
                seq' = (seq + 1) % SeqModulus
          /\ (seq = SeqModulus - 1 /\ seq' # seq) => seq' = 0]_vars

\* C34 witness: the sweep with seq 255 has just ended with the notification
\* of its deepest probe; seq is 0, the probes of that sweep carry 255 and
\* every TTL was probed once in each of the two sweeps
C34_Witness ==
    /\ seq = 0
    /\ epc = "select"
    /\ last = "notify"
    /\ ~complete
    /\ \A t \in Ttls : wire[t] = LateSeq + 2
    /\ ProbeId(MaxTtl, SeqModulus - 1) \in IdsAbout
    /\ ProbeId(1, SeqModulus - 1) \in IdsAbout

\* the type of the ICMP header of the datagram of the call
OuterType == At(call.data, IcmpAt)

\* C35: a parsed response comes from an EchoReply, a TimeExceeded or a
\* DestinationUnreachable only; one that comes from a TimeExceeded or a
\* DestinationUnreachable embeds an ICMP header of type 8 with the session
\* identifier, has its ProbeId decoded from the sequence field of that
\* embedded header, and, for a DestinationUnreachable, carries the code of
\* the outer ICMP header
C35_ErrorPacketAcceptance ==
    (Parsing /\ call.result.kind = "some") =>
        /\ OuterType \in {0, 3, 11}
        /\ OuterType \in {3, 11} =>
              /\ At(call.data, EmbeddedIcmpAt) = 8
              /\ FromBeBytes(At(call.data, EmbeddedIcmpAt + 4),
                             At(call.data, EmbeddedIcmpAt + 5))
                    = call.our_identifier
              /\ call.result.probe_id =
                    FromSequence(FromBeBytes(At(call.data, EmbeddedIcmpAt + 6),
                                             At(call.data, EmbeddedIcmpAt + 7)))
              /\ call.result.response_type =
                    IF OuterType = 11 THEN <<"TimeExceeded">>
                    ELSE <<"DestUnreachable", At(call.data, IcmpAt + 1)>>

\* C35 witness: a DestinationUnreachable of code 1 was accepted; its own
\* bytes 6..8 and the embedded sequence field differ, as do the outer and
\* the embedded code, and the ProbeId is that of the embedded field
C35_Witness ==
    /\ Parsing
    /\ call.result.kind = "some"
    /\ OuterType = 3
    /\ At(call.data, IcmpAt + 1) = 1
    /\ At(call.data, EmbeddedIcmpAt + 1) = 0
    /\ At(call.data, IcmpAt + 7) # At(call.data, EmbeddedIcmpAt + 7)
    /\ call.result.probe_id = ProbeId(MaxTtl, At(call.data, EmbeddedIcmpAt + 7))
    /\ call.result.response_type = <<"DestUnreachable", 1>>

\* C36: on a path of known responders every address that lies inside a
\* loaded IX prefix eventually has its ix field set by the IX worker
C36_IxMatchEventuallySet ==
    (call.fn = "ix_path")
        ~> (call.fn = "ix_path" /\ call.inside \subseteq call.ix)

\* C37: on a path of known responders every address with a resolvable
\* reverse-DNS name eventually has its hostname set by the RDNS worker
C37_ResolvableEventuallyNamed ==
    (call.fn = "dns_path")
        ~> (call.fn = "dns_path" /\ call.resolvable \subseteq call.named)

\* the lookup calls whose load_data awaits the provider fetch
Loading == {k \in LookupTasks : lk[k].pc = "fetch"}

\* C38: of the lookup calls that run side by side at most one is inside
\* load_data at any time
C38_LoadedAtMostOnce == Cardinality(Loading) <= 1

\* C39: in every state session.total_sent is the sum of hop.sent over the
\* hops of the session
C39_TotalSentIsSum ==
    session_total_sent = SumTo([t \in Ttls |-> hops[t].sent], MaxTtl)

\* C39 witness: the second probe of hop 1 has just been recorded under the
\* write lock, after a first sweep that probed every hop; the session total
\* counts it while the engine's own total_sent does not yet
C39_Witness ==
    /\ last = "record_sent"
    /\ hops[1].sent = 2
    /\ \A t \in Ttls \ {1} : hops[t].sent = 1
    /\ session_total_sent = MaxTtl + 1
    /\ total_sent = MaxTtl

\* C40: no step of the engine, the updater, the reaper or the enrichment
\* workers takes session.complete from true back to false
C40_CompleteIsMonotone == [][complete => complete']_vars

\* C40 witness: the session is complete, and since the target answered
\* the RDNS worker has named it, the engine has ended its sweep and the
\* pending table has been emptied
C40_Witness ==
    /\ complete
    /\ last = "dns_query_done"
    /\ Target \in DOMAIN hops[1].responders
    /\ hops[1].responders[Target].hostname # None
    /\ epc = "select"
    /\ pending = {}

====
